---- MODULE Spec2Model ----
(***************************************************************************)
(* A model of the ngrokd-go binding dialer: the endpoint cache and its     *)
(* refresh loop, DialContext with fallback routing, the retry loop with    *)
(* cancelable backoff, and Close.                                          *)
(*                                                                         *)
(* The repository holds two revisions of the dialer.  src/dialer.go        *)
(* discovers endpoints on a cache miss and dials once; src/unnamed/        *)
(* part_010 routes a miss straight to the fallback dialer and dials with   *)
(* retry.  The variable `version` fixes which revision a behaviour runs.   *)
(*                                                                         *)
(* Strings the code parses are sequences of one-character strings.         *)
(***************************************************************************)
EXTENDS Integers, Sequences, FiniteSets, TLC

\* ------------------------------------------------------------------ bounds

\* Largest RetryConfig.MaxRetries a configuration is given.
MaxRetriesBound == 2
\* Ticks of the refresh ticker that are delivered in one behaviour.
MaxTicks == 2
\* Close calls made in one behaviour, by all goroutines together.
MaxCloseCalls == 2

\* The values rand.Float64() takes are k / JitterSteps, k < JitterSteps.
JitterSteps == 100

\* The largest retry index whose backoff is computed alone.
MaxAttempt == 4
\* Bytes in the body of a response frame that is followed alone.
MaxBody == 3
\* Entries in one listing of the directory that is followed alone.
MaxListing == 3
\* Discoveries made one after the other when followed alone.
MaxRounds == 2

\* ------------------------------------------------------------------- text

Digits == <<"0", "1", "2", "3", "4", "5", "6", "7", "8", "9">>

IsDigit(ch) == \E i \in 1..10 : Digits[i] = ch

DigitVal(ch) == (CHOOSE i \in 1..10 : Digits[i] = ch) - 1

\* strings.Contains / strings.Index: the first index at which sub occurs in
\* s, 0 when it does not occur.
Index(s, sub) ==
  LET hits == {i \in 1..(Len(s) - Len(sub) + 1) :
                  SubSeq(s, i, i + Len(sub) - 1) = sub}
  IN IF hits = {} THEN 0 ELSE CHOOSE i \in hits : \A j \in hits : i <= j

\* strings.LastIndex for a one-character needle, 0 when absent.
LastIndex(s, ch) ==
  LET hits == {i \in 1..Len(s) : s[i] = ch}
  IN IF hits = {} THEN 0 ELSE CHOOSE i \in hits : \A j \in hits : i >= j

\* The decimal value of a sequence of digits.
RECURSIVE DecValue(_)
DecValue(ds) ==
  IF ds = <<>> THEN 0
  ELSE 10 * DecValue(SubSeq(ds, 1, Len(ds) - 1)) + DigitVal(ds[Len(ds)])

\* The longest prefix of s made of digits.
RECURSIVE DigitPrefix(_)
DigitPrefix(s) ==
  IF s = <<>> \/ ~IsDigit(s[1]) THEN <<>>
  ELSE <<s[1]>> \o DigitPrefix(Tail(s))

\* A scan that stops after the first digit.
SscanfFirstDigit(s) ==
  IF s = <<>> \/ ~IsDigit(s[1]) THEN [ok |-> FALSE, val |-> 0]
  ELSE [ok |-> TRUE, val |-> DigitVal(s[1])]

\* fmt.Sscanf(s, "%d", &port): an optional sign, then the leading digits;
\* what follows the digits is left unread.  No digit is an error.
Sscanf(s) ==
  LET signed == s # <<>> /\ s[1] \in {"+", "-"}
      body == IF signed THEN Tail(s) ELSE s
      ds == DigitPrefix(body)
  IN IF ds = <<>> THEN [ok |-> FALSE, val |-> 0]
     ELSE [ok |-> TRUE,
           val |-> IF signed /\ s[1] = "-" THEN 0 - DecValue(ds) ELSE DecValue(ds)]

\* net/url.Parse on "scheme://host[:port]": Scheme, Hostname() and Port().
\* A port that is not all digits makes url.Parse fail.
UrlParse(s) ==
  LET i == Index(s, <<":", "/", "/">>)
      scheme == SubSeq(s, 1, i - 1)
      auth == SubSeq(s, i + 3, Len(s))
      c == LastIndex(auth, ":")
      host == IF c = 0 THEN auth ELSE SubSeq(auth, 1, c - 1)
      port == IF c = 0 THEN <<>> ELSE SubSeq(auth, c + 1, Len(auth))
  IN IF i = 0 \/ (\E k \in 1..Len(port) : ~IsDigit(port[k]))
     THEN [ok |-> FALSE, scheme |-> <<>>, host |-> <<>>, port |-> <<>>]
     ELSE [ok |-> TRUE, scheme |-> scheme, host |-> host, port |-> port]

HTTP == <<"h", "t", "t", "p">>
HTTPS == <<"h", "t", "t", "p", "s">>
TCP == <<"t", "c", "p">>
TLS == <<"t", "l", "s">>

\* parseAddress: (hostname, port) of a URL, a host:port or a bare host.
parseAddress(address) ==
  IF Index(address, <<":", "/", "/">>) # 0
  THEN LET u == UrlParse(address)
       IN IF ~u.ok THEN [err |-> "invalid URL", hostname |-> <<>>, port |-> 0]
          ELSE IF u.port # <<>>
          THEN [err |-> "", hostname |-> u.host, port |-> Sscanf(u.port).val]
          ELSE IF u.scheme \in {TCP, TLS}
          THEN [err |-> "scheme requires explicit port", hostname |-> <<>>, port |-> 0]
          ELSE [err |-> "", hostname |-> u.host, port |-> 80]
  ELSE LET idx == LastIndex(address, ":")
       IN IF idx # 0
          THEN LET p == Sscanf(SubSeq(address, idx + 1, Len(address)))
               IN IF ~p.ok THEN [err |-> "invalid port", hostname |-> <<>>, port |-> 0]
                  ELSE [err |-> "", hostname |-> SubSeq(address, 1, idx - 1),
                        port |-> p.val]
          ELSE [err |-> "", hostname |-> address, port |-> 80]

\* extractHostPort: hostname and port of a discovered endpoint's URL.
extractHostPort(endpointURL) ==
  LET u == UrlParse(endpointURL)
  IN IF ~u.ok THEN [hostname |-> endpointURL, port |-> 443]
     ELSE [hostname |-> u.host,
           port |-> IF u.port # <<>> THEN Sscanf(u.port).val
                    ELSE IF u.scheme \in {HTTPS, TLS} THEN 443
                    ELSE IF u.scheme = HTTP THEN 80
                    ELSE 443]

\* -------------------------------------------------------------- directory

\* What the directory API can answer to one ListBoundEndpoints call: the
\* primary listing (or a failure of it) and the /endpoints listing used to
\* validate it (or a failure of that).
EpA == [ID |-> "ep_a", URL |-> <<"h", "t", "t", "p", ":", "/", "/", "a">>, Proto |-> "http"]
EpB == [ID |-> "ep_b", URL |-> <<"h", "t", "t", "p", ":", "/", "/", "b">>, Proto |-> "http"]
EpB2 == [ID |-> "ep_b2", URL |-> <<"t", "c", "p", ":", "/", "/", "b", ":", "7">>, Proto |-> "tcp"]
EpADup == [ID |-> "ep_a2", URL |-> <<"h", "t", "t", "p", ":", "/", "/", "a">>, Proto |-> "http"]
EpStale == [ID |-> "ep_old", URL |-> <<"h", "t", "t", "p", ":", "/", "/", "a">>, Proto |-> "http"]

K8s(id) == [ID |-> id, Bindings |-> <<"public", "kubernetes">>]
Pub(id) == [ID |-> id, Bindings |-> <<"public">>]

ApiScenarios ==
  { [primaryOk |-> FALSE, primary |-> <<>>, secondaryOk |-> FALSE, secondary |-> <<>>],
    [primaryOk |-> TRUE, primary |-> <<EpA, EpB, EpADup>>,
     secondaryOk |-> FALSE, secondary |-> <<>>],
    [primaryOk |-> TRUE, primary |-> <<EpB, EpB2, EpStale>>,
     secondaryOk |-> TRUE, secondary |-> <<K8s("ep_b"), K8s("ep_b2"), Pub("ep_old")>>] }

\* A validation that accepts every endpoint of the /endpoints listing.
getValidAnyBinding(secondary) == {secondary[i].ID : i \in 1..Len(secondary)}

\* getValidKubernetesEndpoints: the IDs of the endpoints that list a
\* "kubernetes" binding.
getValidKubernetesEndpoints(secondary) ==
  {secondary[i].ID : i \in {j \in 1..Len(secondary) :
      \E b \in 1..Len(secondary[j].Bindings) : secondary[j].Bindings[b] = "kubernetes"}}

RECURSIVE FilterValid(_, _)
FilterValid(eps, valid) ==
  IF eps = <<>> THEN <<>>
  ELSE (IF eps[1].ID \in valid THEN <<eps[1]>> ELSE <<>>) \o FilterValid(Tail(eps), valid)

\* ListBoundEndpoints: the primary listing, filtered by the validation
\* listing when that call succeeds and unfiltered when it fails.
ListBoundEndpoints(sc) ==
  IF ~sc.primaryOk THEN [err |-> "APIError", eps |-> <<>>]
  ELSE IF ~sc.secondaryOk THEN [err |-> "", eps |-> sc.primary]
  ELSE [err |-> "",
        eps |-> FilterValid(sc.primary, getValidKubernetesEndpoints(sc.secondary))]

\* A loop that skips no entry.
RECURSIVE DedupKeepsAll(_, _)
DedupKeepsAll(apiEndpoints, seen) ==
  IF apiEndpoints = <<>> THEN <<>>
  ELSE LET ep == apiEndpoints[1]
           hp == extractHostPort(ep.URL)
       IN <<[ID |-> ep.ID, Hostname |-> hp.hostname, Proto |-> ep.Proto,
             Port |-> hp.port, URL |-> ep.URL]>>
          \o DedupKeepsAll(Tail(apiEndpoints), seen \cup {ep.URL})

\* The loop of discoverEndpoints: entries whose URL was seen are skipped,
\* the others become Endpoints.
RECURSIVE Dedup(_, _)
Dedup(apiEndpoints, seen) ==
  IF apiEndpoints = <<>> THEN <<>>
  ELSE LET ep == apiEndpoints[1]
           hp == extractHostPort(ep.URL)
       IN IF ep.URL \in seen THEN Dedup(Tail(apiEndpoints), seen)
          ELSE <<[ID |-> ep.ID, Hostname |-> hp.hostname, Proto |-> ep.Proto,
                  Port |-> hp.port, URL |-> ep.URL]>>
               \o Dedup(Tail(apiEndpoints), seen \cup {ep.URL})

\* discoverEndpoints, given the dialer's operator ID and the API's answer.
discoverEndpoints(operatorID, sc) ==
  IF operatorID = "" THEN [err |-> "operator ID not set", eps |-> <<>>]
  ELSE LET r == ListBoundEndpoints(sc)
       IN IF r.err # "" THEN [err |-> r.err, eps |-> <<>>]
          ELSE [err |-> "", eps |-> Dedup(r.eps, {})]

\* A cache update that keeps the entry a hostname already has.
RECURSIVE StoreAllKeepsFirst(_, _)
StoreAllKeepsFirst(m, eps) ==
  IF eps = <<>> THEN m
  ELSE StoreAllKeepsFirst([h \in DOMAIN m \cup {eps[1].Hostname} |->
                             IF h \in DOMAIN m THEN m[h] ELSE eps[1]],
                          Tail(eps))

\* The cache update of DiscoverEndpoints: starting from map m, store each
\* endpoint under its hostname, in order.
RECURSIVE StoreAll(_, _)
StoreAll(m, eps) ==
  IF eps = <<>> THEN m
  ELSE StoreAll([h \in DOMAIN m \cup {eps[1].Hostname} |->
                    IF h = eps[1].Hostname THEN eps[1] ELSE m[h]],
                Tail(eps))

EmptyMap == [h \in {} |-> EpA]

\* A cache update that fills the old map instead of a new one.
newCacheKeepsOld(old, eps) == old

\* d.endpoints = make(map[string]Endpoint, len(endpoints)): the map the
\* update fills, given the map it replaces.
newCache(old, eps) == EmptyMap

HostnamesOf(eps) == {eps[i].Hostname : i \in 1..Len(eps)}

\* ------------------------------------------------------------- wire codec

\* Bytes are the numbers 0..255; a frame, a body and a host are sequences of
\* bytes.  The bodies and hosts that are followed are short enough for every
\* varint to stay below 2^28.

\* appendVarint(nil, v): the base-128 encoding of v, low group first.
RECURSIVE appendVarint(_)
appendVarint(v) ==
  IF v >= 128 THEN <<(v % 128) + 128>> \o appendVarint(v \div 128) ELSE <<v>>

\* 2^(7*i), the weight of the i-th group of a varint.
RECURSIVE Pow128(_)
Pow128(i) == IF i = 0 THEN 1 ELSE 128 * Pow128(i - 1)

RECURSIVE VarintSum(_, _)
VarintSum(data, n) ==
  IF n = 0 THEN 0 ELSE VarintSum(data, n - 1) + (data[n] % 128) * Pow128(n - 1)

\* consumeVarint(data): the groups up to the first byte below 0x80, or all of
\* data when no byte ends the varint; v and the number of bytes consumed.
consumeVarint(data) ==
  LET ends == {i \in 1..Len(data) : data[i] < 128}
      n == IF ends = {} THEN Len(data) ELSE CHOOSE i \in ends : \A j \in ends : i <= j
  IN [v |-> VarintSum(data, n), n |-> n]

\* data[pos:] of Go, pos counted from 0.
From(data, pos) == SubSeq(data, pos + 1, Len(data))

\* ConnRequest.marshal, and the body writeBindingRequest builds: field 1
\* (host, length-delimited) when host is not empty, field 2 (port, varint)
\* when port is not 0.
marshal(host, port) ==
  (IF host # <<>> THEN <<10>> \o appendVarint(Len(host)) \o host ELSE <<>>)
    \o (IF port # 0 THEN <<16>> \o appendVarint(port) ELSE <<>>)

\* uint16(len(buf)): the conversion keeps the low 16 bits.
Uint16(n) == n % 65536

\* binary.LittleEndian of a uint16.
LittleEndian16(n) == <<n % 256, n \div 256>>

\* writeProtoMessage / writeBindingRequest on a connection that accepts the
\* writes: the error returned and the bytes written.
writeProtoMessage(host, port) ==
  LET buf == marshal(host, port)
      length == Uint16(Len(buf))
  IN [err |-> "", written |-> LittleEndian16(length) \o buf]

ConnResponse0 == [EndpointID |-> <<>>, Proto |-> <<>>, ErrorCode |-> <<>>, ErrorMessage |-> <<>>]

\* The field of ConnResponse that a length-delimited field number sets.
SetField(resp, fieldNum, value) ==
  IF fieldNum = 1 THEN [resp EXCEPT !.EndpointID = value]
  ELSE IF fieldNum = 2 THEN [resp EXCEPT !.Proto = value]
  ELSE IF fieldNum = 3 THEN [resp EXCEPT !.ErrorCode = value]
  ELSE IF fieldNum = 4 THEN [resp EXCEPT !.ErrorMessage = value]
  ELSE resp

\* data[low:high] of Go, on a slice whose capacity is its length: the
\* bytes, or a run-time panic when the bounds are out of range.
slice(data, low, high) ==
  IF low <= high /\ high <= Len(data)
  THEN [out |-> "ok", value |-> SubSeq(data, low + 1, high)]
  ELSE [out |-> "panic", value |-> <<>>]

\* ConnResponse.unmarshal, and the loop of readBindingResponse, from position
\* pos of data on: "ok" with the response, "error" for an unsupported wire
\* type, "panic" when a slice expression is out of range.
RECURSIVE unmarshal(_, _, _)
unmarshal(data, pos, resp) ==
  IF pos >= Len(data) THEN [out |-> "ok", resp |-> resp]
  ELSE LET tag == data[pos + 1]
           fieldNum == tag \div 8
           wireType == tag % 8
           vi == consumeVarint(From(data, pos + 1))
           p == pos + 1 + vi.n
       IN IF wireType = 0 THEN unmarshal(data, p, resp)
          ELSE IF wireType = 2
          THEN LET value == slice(data, p, p + vi.v)
               IN IF value.out # "ok" THEN [out |-> value.out, resp |-> ConnResponse0]
                  ELSE unmarshal(data, p + vi.v, SetField(resp, fieldNum, value.value))
          ELSE [out |-> "error", resp |-> ConnResponse0]

\* A slice expression that checks its bounds: the bytes, or a decode error.
sliceChecked(data, low, high) ==
  IF low <= high /\ high <= Len(data)
  THEN [out |-> "ok", value |-> SubSeq(data, low + 1, high)]
  ELSE [out |-> "error", value |-> <<>>]

ConnRequest0 == [Host |-> <<>>, Port |-> 0]

\* The decoding of a request body by the peer, which this library does not
\* hold: the loop of unmarshal over the schema of ConnRequest, field 1 the
\* host (length-delimited) and field 2 the port (varint), every read checked
\* against the bytes that remain.
RECURSIVE unmarshalRequest(_, _, _)
unmarshalRequest(data, pos, req) ==
  IF pos >= Len(data) THEN [out |-> "ok", req |-> req]
  ELSE LET tag == data[pos + 1]
           fieldNum == tag \div 8
           wireType == tag % 8
           vi == consumeVarint(SubSeq(data, pos + 2, IF pos + 6 < Len(data) THEN pos + 6 ELSE Len(data)))
           p == pos + 1 + vi.n
       IN IF wireType = 0
          THEN unmarshalRequest(data, p, IF fieldNum = 2 THEN [req EXCEPT !.Port = vi.v] ELSE req)
          ELSE IF wireType = 2
          THEN LET value == sliceChecked(data, p, p + vi.v)
               IN IF value.out # "ok" THEN [out |-> "error", req |-> ConnRequest0]
                  ELSE unmarshalRequest(data, p + vi.v,
                         IF fieldNum = 1 THEN [req EXCEPT !.Host = value.value] ELSE req)
          ELSE [out |-> "error", req |-> ConnRequest0]

\* The peer reads a frame from the bytes sent to it: the 16-bit length, that
\* many bytes of body, and the decoding of the body.
readRequest(sent) ==
  IF Len(sent) < 2 THEN [out |-> "error", req |-> ConnRequest0]
  ELSE LET length == sent[1] + 256 * sent[2]
       IN IF Len(sent) < 2 + length THEN [out |-> "error", req |-> ConnRequest0]
          ELSE unmarshalRequest(SubSeq(sent, 3, 2 + length), 0, ConnRequest0)

\* ---------------------------------------------------------------- backoff

\* Durations are whole microseconds.
Ms(n) == n * 1000

RECURSIVE Grow(_, _, _)
Grow(backoff, multiplier, times) ==
  IF times <= 0 THEN backoff ELSE Grow(backoff * multiplier, multiplier, times - 1)

\* A backoff whose loop starts at 0: InitialBackoff * multiplier^attempt.
calculateBackoffFromZero(attempt, rc, k) ==
  LET backoff == Grow(rc.InitialBackoff, rc.BackoffMultiplier, attempt)
      jittered == (backoff * (3 * JitterSteps + 2 * k)) \div (4 * JitterSteps)
  IN IF jittered > rc.MaxBackoff THEN rc.MaxBackoff ELSE jittered

\* A backoff that is capped at MaxBackoff before the jitter is added.
calculateBackoffCapFirst(attempt, rc, k) ==
  LET backoff == Grow(rc.InitialBackoff, rc.BackoffMultiplier, attempt - 1)
      capped == IF backoff > rc.MaxBackoff THEN rc.MaxBackoff ELSE backoff
  IN (capped * (3 * JitterSteps + 2 * k)) \div (4 * JitterSteps)

\* calculateBackoff(attempt, cfg) when rand.Float64() returns k / JitterSteps:
\* InitialBackoff * multiplier^(attempt - 1), plus the jitter
\* (r - 0.5) * 0.5 * backoff, capped at MaxBackoff and cut to a whole
\* duration.  backoff + jitter is backoff * (3 + 2r) / 4.
calculateBackoff(attempt, rc, k) ==
  LET backoff == Grow(rc.InitialBackoff, rc.BackoffMultiplier, attempt - 1)
      jittered == (backoff * (3 * JitterSteps + 2 * k)) \div (4 * JitterSteps)
  IN IF jittered > rc.MaxBackoff THEN rc.MaxBackoff ELSE jittered

\* ----------------------------------------------------------------- errors

NoErr == [kind |-> "", from |-> "", info |-> <<>>]

\* An error value: its kind, the function that produced it, and what it
\* carries (the hostname of an EndpointNotFoundError).
Err(kind, from) == [kind |-> kind, from |-> from, info |-> <<>>]

ErrClosed(from) == Err("ErrClosed", from)

\* An EndpointNotFoundError that lost its hostname.
EndpointNotFoundErrorNoHost(hostname) ==
  [kind |-> "EndpointNotFoundError", from |-> "DialContext", info |-> <<>>]

EndpointNotFoundError(hostname) ==
  [kind |-> "EndpointNotFoundError", from |-> "DialContext", info |-> hostname]

\* ctx.Err() of a context that is done.
CtxErr == Err("context canceled", "ctx")

\* errors.Is(e, target) for the sentinels of errors.go: the Is methods of the
\* three error types, and identity for the sentinels themselves.
ErrorsIs(e, target) ==
  \/ e.kind = target
  \/ e.kind = "EndpointNotFoundError" /\ target = "ErrEndpointNotFound"
  \/ e.kind = "DialError" /\ target = "ErrDialFailed"
  \/ e.kind = "UpgradeError" /\ target = "ErrUpgradeFailed"

\* ------------------------------------------------------------------ state

Callers == {"c1"}
Closers == {"k1", "k2"}
Procs == Callers \cup {"bg"}

\* The calls a dial caller makes: a host the directory may list, a host it
\* never lists, and an address that does not parse.
DialInputs ==
  { [network |-> "tcp", address |-> <<"a", ":", "4", "4", "3">>],
    [network |-> "tcp4", address |-> <<"u", ":", "4", "4", "3">>],
    [network |-> "tcp", address |-> <<"t", "c", "p", ":", "/", "/", "a">>] }

VARIABLES
  version,    \* which revision of the dialer runs: "dialer.go" or "part_010"
  cfg,        \* Config after setDefaults, and the operator ID NewDialer got
  endpoints,  \* Dialer.endpoints: hostname -> Endpoint
  mu,         \* Dialer.mu: "free", or the process holding the write lock
  closed,     \* Dialer.closed
  closeCh,    \* TRUE once Dialer.closeCh is closed
  closeOnce,  \* Dialer.closeOnce: "new", "running" or "done"
  wg,         \* Dialer.wg's counter
  panicked,   \* a goroutine panicked (close of a closed channel)
  rl,         \* the refreshLoop goroutine
  disc,       \* the DiscoverEndpoints call each process is in
  dl,         \* the call each caller makes: DialContext or DiscoverEndpoints
  cl,         \* the goroutines calling Close
  hist,       \* history: the hostnames the last cache update returned, those of
              \* the update before it that it did not return, and the
              \* processes whose DiscoverEndpoints has failed
  lst,        \* one discovery followed alone: the listing the API returned,
              \* the endpoints discoverEndpoints made of it, the cache filled
  wire,       \* one frame followed alone: a request written, or a response read
  bk,         \* the backoff waits of one dial followed alone
  cs,         \* one certificate store followed alone, and its callers
  pv,         \* one EnsureCertificate call followed alone
  pa,         \* one address parsed alone
  nd          \* one dialer built by NewDialer and used once, alone

\* The dialer and the goroutines using it.
dialerVars == <<version, cfg, endpoints, mu, closed, closeCh, closeOnce, wg,
                panicked, rl, disc, dl, cl, hist>>

\* The parts of the library that are followed on their own.
aux == <<lst, wire, bk, cs, pv, pa, nd>>

vars == <<dialerVars, aux>>

\* No discovery is followed alone.
LstIdle ==
  lst = [pc |-> "off", raw |-> <<>>, eps |-> <<>>, cache |-> EmptyMap, round |-> 0]

\* No frame is followed alone.
WireIdle ==
  wire = [pc |-> "off", hostLen |-> 0, port |-> 0, err |-> "", frame |-> <<>>,
          out |-> "", dec |-> <<>>]

\* No backoff is followed alone.
BkIdle == bk = [pc |-> "off", attempt |-> 0, wait |-> 0]

\* No certificate store is followed alone.
CsIdle == cs = [kind |-> "off"]

\* No EnsureCertificate call is followed alone.
PvIdle == pv = [pc |-> "off"]

\* No address is parsed alone.
PaIdle == pa = [pc |-> "off"]

\* No dialer is built alone.
NdIdle == nd = [pc |-> "off"]

AuxIdle == LstIdle /\ WireIdle /\ BkIdle /\ CsIdle /\ PvIdle /\ PaIdle /\ NdIdle

IdleDial ==
  [pc |-> "idle", op |-> "", network |-> "", address |-> <<>>, hostname |-> <<>>, port |-> 0,
   ctxDone |-> FALSE, attempt |-> 0, lastErr |-> NoErr, ret |-> NoErr,
   conn |-> "none", leaked |-> 0, sel |-> "", nAttempts |-> 0, nWaits |-> 0, nApi |-> 0,
   fb |-> <<>>, afterClose |-> FALSE, cancelInWait |-> FALSE, closeInWait |-> FALSE]

DialerInit ==
  /\ version \in {"dialer.go", "part_010"}
  /\ cfg \in [fallback : BOOLEAN, refresh : BOOLEAN, operatorID : {"", "op_1"},
              MaxRetries : 0..MaxRetriesBound]
  /\ version = "dialer.go" => cfg.MaxRetries = 0
  /\ endpoints = EmptyMap
  /\ mu = "free"
  /\ closed = FALSE
  /\ closeCh = FALSE
  /\ closeOnce = "new"
  /\ wg = IF cfg.refresh THEN 1 ELSE 0
  /\ panicked = FALSE
  /\ rl = [pc |-> IF cfg.refresh THEN "select" ELSE "off", ticks |-> 0]
  /\ disc = [p \in Procs |-> [pc |-> "none", eps |-> <<>>]]
  /\ dl = [c \in Callers |-> IdleDial]
  /\ cl = [k \in Closers |-> [pc |-> "idle", calls |-> 0, ret |-> ""]]
  /\ hist = [last |-> {}, dropped |-> {}, failed |-> {}]

Init == DialerInit /\ AuxIdle

\* One dialer at rest, for the behaviours that follow a part of the library
\* on its own.
DialerRest ==
  /\ DialerInit
  /\ version = "part_010"
  /\ cfg = [fallback |-> FALSE, refresh |-> FALSE, operatorID |-> "op_1", MaxRetries |-> 0]

\* ----------------------------------------------------------------- lookups

\* isKnownEndpoint, under the read lock.
isKnownEndpoint(hostname) == hostname \in DOMAIN endpoints

\* Endpoints(): a copy of the cache, under the read lock.
Endpoints == [k \in DOMAIN endpoints |-> endpoints[k]]

\* A lookup that reads the map without taking the read lock.
CanRLockNoLock == TRUE

\* RLock succeeds when no writer holds mu.
CanRLock == mu = "free"

\* ------------------------------------------------------- DiscoverEndpoints

\* A DialContext that returns the error of its on-miss discovery instead of
\* logging it.
DiscReturnSurfaces(p, err, apiCalls) ==
  /\ rl' = IF p = "bg" THEN [rl EXCEPT !.pc = "select"] ELSE rl
  /\ dl' = IF p \in Callers
           THEN [dl EXCEPT ![p] =
                   IF @.op = "DialContext" /\ err.kind = ""
                   THEN [@ EXCEPT !.pc = "lookup2", !.nApi = @ + apiCalls]
                   ELSE [@ EXCEPT !.pc = "done", !.ret = err, !.nApi = @ + apiCalls]]
           ELSE dl

\* A refresh loop that ends when its poll fails.
DiscReturnStopsLoop(p, err, apiCalls) ==
  /\ rl' = IF p = "bg"
           THEN [rl EXCEPT !.pc = IF err.kind = "" THEN "select" ELSE "exited"]
           ELSE rl
  /\ dl' = IF p \in Callers
           THEN [dl EXCEPT ![p] =
                   IF @.op = "DialContext"
                   THEN [@ EXCEPT !.pc = "lookup2", !.nApi = @ + apiCalls]
                   ELSE [@ EXCEPT !.pc = "done", !.ret = err, !.nApi = @ + apiCalls]]
           ELSE dl

\* DiscoverEndpoints returns err to the process that called it: the refresh
\* loop logs a failure and selects again, DialContext goes on to its second
\* lookup (it logs a failure and drops it), the application gets the error.
DiscReturn(p, err, apiCalls) ==
  /\ rl' = IF p = "bg" THEN [rl EXCEPT !.pc = "select"] ELSE rl
  /\ dl' = IF p \in Callers
           THEN [dl EXCEPT ![p] =
                   IF @.op = "DialContext"
                   THEN [@ EXCEPT !.pc = "lookup2", !.nApi = @ + apiCalls]
                   ELSE [@ EXCEPT !.pc = "done", !.ret = err, !.nApi = @ + apiCalls]]
           ELSE dl

\* DiscoverEndpoints, the closed check.
DiscCheck(p) ==
  /\ disc[p].pc = "check"
  /\ IF closed
     THEN /\ disc' = [disc EXCEPT ![p].pc = "none"]
          /\ DiscReturn(p, ErrClosed("DiscoverEndpoints"), 0)
          /\ hist' = [hist EXCEPT !.failed = @ \cup {p}]
     ELSE /\ disc' = [disc EXCEPT ![p].pc = "fetch"]
          /\ UNCHANGED <<rl, dl, hist>>
  /\ UNCHANGED <<aux, version, cfg, endpoints, mu, closed, closeCh, closeOnce, wg,
                 panicked, cl>>

\* DiscoverEndpoints, the call of discoverEndpoints: the directory answers
\* with one of the scenarios.  A failure returns before the cache is touched.
\* On success the step goes on to d.mu.Lock() and d.endpoints = make(map...),
\* so it waits for the lock.
DiscFetch(p) ==
  /\ disc[p].pc = "fetch"
  /\ \E sc \in ApiScenarios :
       LET r == discoverEndpoints(cfg.operatorID, sc)
           api == IF cfg.operatorID = "" THEN 0 ELSE 1
       IN IF r.err # ""
          THEN /\ disc' = [disc EXCEPT ![p].pc = "none"]
               /\ DiscReturn(p, Err(r.err, "discoverEndpoints"), api)
               /\ hist' = [hist EXCEPT !.failed = @ \cup {p}]
               /\ UNCHANGED <<endpoints, mu>>
          ELSE /\ mu = "free"
               /\ mu' = p
               /\ endpoints' = newCache(endpoints, r.eps)
               /\ disc' = [disc EXCEPT ![p].pc = "store", ![p].eps = r.eps]
               /\ dl' = IF p \in Callers THEN [dl EXCEPT ![p].nApi = @ + api] ELSE dl
               /\ UNCHANGED <<rl, hist>>
  /\ UNCHANGED <<aux, version, cfg, closed, closeCh, closeOnce, wg, panicked, cl>>

\* DiscoverEndpoints, the loop storing each endpoint under its hostname,
\* d.mu.Unlock() and the return.
DiscStore(p) ==
  /\ disc[p].pc = "store"
  /\ mu = p
  /\ endpoints' = StoreAll(endpoints, disc[p].eps)
  /\ mu' = "free"
  /\ hist' = [hist EXCEPT !.last = HostnamesOf(disc[p].eps),
                          !.dropped = hist.last \ HostnamesOf(disc[p].eps)]
  /\ disc' = [disc EXCEPT ![p].pc = "none", ![p].eps = <<>>]
  /\ DiscReturn(p, NoErr, 0)
  /\ UNCHANGED <<aux, version, cfg, closed, closeCh, closeOnce, wg, panicked, cl>>

\* ------------------------------------------------------------ refreshLoop

\* refreshLoop's select takes <-d.closeCh: the deferred ticker.Stop() and
\* wg.Done() run and the goroutine ends.
RefreshExit ==
  /\ rl.pc = "select"
  /\ closeCh
  /\ rl' = [rl EXCEPT !.pc = "exited"]
  /\ wg' = wg - 1
  /\ UNCHANGED <<aux, version, cfg, endpoints, mu, closed, closeCh, closeOnce, panicked,
                 disc, dl, cl, hist>>

\* refreshLoop's select takes <-ticker.C and calls DiscoverEndpoints.
RefreshTick ==
  /\ rl.pc = "select"
  /\ rl.ticks < MaxTicks
  /\ rl' = [rl EXCEPT !.pc = "poll", !.ticks = @ + 1]
  /\ disc' = [disc EXCEPT !["bg"].pc = "check"]
  /\ UNCHANGED <<aux, version, cfg, endpoints, mu, closed, closeCh, closeOnce, wg,
                 panicked, dl, cl, hist>>

\* ------------------------------------------------------------------ Close

\* A select that does not listen to the context.
backoffCasesNoCtx == {"close", "timer"}

\* A select that does not listen to the close signal.
backoffCasesNoClose == {"ctx", "timer"}

\* The cases of dialWithRetry's select: the context, the close signal, the
\* backoff timer.
backoffCases == {"ctx", "close", "timer"}

\* A caller parked in the backoff select is taken out of it by the event ev.
Wake(rec, ev) ==
  IF rec.pc = "parked" /\ ev \in backoffCases
  THEN [rec EXCEPT !.pc = "woken", !.sel = ev]
  ELSE rec

\* Close calls made so far.
RECURSIVE SumCalls(_)
SumCalls(ks) ==
  IF ks = {} THEN 0
  ELSE LET k == CHOOSE x \in ks : TRUE IN cl[k].calls + SumCalls(ks \ {k})

CloseCalls == SumCalls(Closers)

\* A goroutine calls Close.
CloseCall(k) ==
  /\ cl[k].pc = "idle"
  /\ CloseCalls < MaxCloseCalls
  /\ cl' = [cl EXCEPT ![k].pc = "once", ![k].calls = @ + 1, ![k].ret = ""]
  /\ UNCHANGED <<aux, version, cfg, endpoints, mu, closed, closeCh, closeOnce, wg,
                 panicked, rl, disc, dl, hist>>

\* A Close that runs its function on every call.
CloseOnceDoAlways(k) ==
  /\ cl[k].pc = "once"
  /\ closeOnce' = "running"
  /\ cl' = [cl EXCEPT ![k].pc = "store"]
  /\ UNCHANGED <<aux, version, cfg, endpoints, mu, closed, closeCh, wg, panicked, rl,
                 disc, dl, hist>>

\* closeOnce.Do: the first caller runs the function, a caller arriving while
\* it runs waits for it, a later caller skips it.
CloseOnceDo(k) ==
  /\ cl[k].pc = "once"
  /\ closeOnce # "running"
  /\ IF closeOnce = "new"
     THEN /\ closeOnce' = "running"
          /\ cl' = [cl EXCEPT ![k].pc = "store"]
     ELSE /\ cl' = [cl EXCEPT ![k].pc = "wait"]
          /\ UNCHANGED closeOnce
  /\ UNCHANGED <<aux, version, cfg, endpoints, mu, closed, closeCh, wg, panicked, rl,
                 disc, dl, hist>>

\* d.closed.Store(true)
CloseStore(k) ==
  /\ cl[k].pc = "store"
  /\ closed' = TRUE
  /\ cl' = [cl EXCEPT ![k].pc = "chan"]
  /\ UNCHANGED <<aux, version, cfg, endpoints, mu, closeCh, closeOnce, wg, panicked, rl,
                 disc, dl, hist>>

\* close(d.closeCh), which panics on a closed channel, and the end of the
\* function closeOnce ran.  Closing the channel takes every caller parked in
\* a backoff select out of it.
CloseChan(k) ==
  /\ cl[k].pc = "chan"
  /\ IF closeCh
     THEN /\ panicked' = TRUE
          /\ cl' = [cl EXCEPT ![k].pc = "panic"]
          /\ UNCHANGED <<closeCh, closeOnce, dl>>
     ELSE /\ closeCh' = TRUE
          /\ closeOnce' = "done"
          /\ cl' = [cl EXCEPT ![k].pc = "wait"]
          /\ dl' = [c \in Callers |->
                      [Wake(dl[c], "close") EXCEPT
                         !.closeInWait = @ \/ dl[c].pc = "parked"]]
          /\ UNCHANGED panicked
  /\ UNCHANGED <<aux, version, cfg, endpoints, mu, closed, wg, rl, disc, hist>>

\* A Close that returns without d.wg.Wait().
CloseWaitNoWait(k) ==
  /\ cl[k].pc = "wait"
  /\ cl' = [cl EXCEPT ![k].pc = "idle", ![k].ret = "nil"]
  /\ UNCHANGED <<aux, version, cfg, endpoints, mu, closed, closeCh, closeOnce, wg,
                 panicked, rl, disc, dl, hist>>

\* d.wg.Wait() and return nil.
CloseWait(k) ==
  /\ cl[k].pc = "wait"
  /\ wg = 0
  /\ cl' = [cl EXCEPT ![k].pc = "idle", ![k].ret = "nil"]
  /\ UNCHANGED <<aux, version, cfg, endpoints, mu, closed, closeCh, closeOnce, wg,
                 panicked, rl, disc, dl, hist>>

\* Close calls that have returned.
Returned(k) == cl[k].calls - (IF cl[k].pc = "idle" THEN 0 ELSE 1)

CloseReturned == \E k \in Closers : Returned(k) > 0

\* ------------------------------------------------------------ DialContext

Done(rec, ret) == [rec EXCEPT !.pc = "done", !.ret = ret]

\* A failed attempt that leaves its connection open.
closeConnForgotten(rec) == rec

\* tcpConn.Close(), tlsConn.Close(), conn.Close(): the connection of the
\* attempt is closed.
closeConn(rec) == [rec EXCEPT !.conn = "closed"]

\* The call opens a connection to the ingress; one it still holds open from
\* an earlier attempt is lost to it.
openConn(rec) ==
  [rec EXCEPT !.conn = "open", !.leaked = @ + (IF rec.conn = "open" THEN 1 ELSE 0)]

\* A caller calls DialContext (Dial is DialContext with a context that is
\* never canceled).
DialCall(c) ==
  /\ dl[c].pc = "idle"
  /\ \E in \in DialInputs :
       dl' = [dl EXCEPT ![c].pc = "entry", ![c].op = "DialContext",
                        ![c].network = in.network,
                        ![c].address = in.address, ![c].afterClose = CloseReturned]
  /\ UNCHANGED <<aux, version, cfg, endpoints, mu, closed, closeCh, closeOnce, wg,
                 panicked, rl, disc, cl, hist>>

\* A caller calls DiscoverEndpoints itself.
DiscoverCall(c) ==
  /\ dl[c].pc = "idle"
  /\ dl' = [dl EXCEPT ![c].pc = "discover", ![c].op = "DiscoverEndpoints",
                      ![c].afterClose = CloseReturned]
  /\ disc' = [disc EXCEPT ![c].pc = "check"]
  /\ UNCHANGED <<aux, version, cfg, endpoints, mu, closed, closeCh, closeOnce, wg,
                 panicked, rl, cl, hist>>

\* The caller's context is canceled.  A call parked in the backoff select is
\* taken out of it.
Cancel(c) ==
  /\ dl[c].pc \notin {"idle", "done"}
  /\ ~dl[c].ctxDone
  /\ dl' = [dl EXCEPT ![c] = [Wake(dl[c], "ctx") EXCEPT
                                !.ctxDone = TRUE,
                                !.cancelInWait = (dl[c].pc = "parked")]]
  /\ UNCHANGED <<aux, version, cfg, endpoints, mu, closed, closeCh, closeOnce, wg,
                 panicked, rl, disc, cl, hist>>

\* A DialContext without the closed check.
DialEntryNoClosedCheck(c) ==
  /\ dl[c].pc = "entry"
  /\ LET a == parseAddress(dl[c].address)
     IN dl' = [dl EXCEPT ![c] =
                 IF a.err # "" THEN Done(@, Err("invalid address", "DialContext"))
                 ELSE [@ EXCEPT !.pc = "lookup1", !.hostname = a.hostname,
                                !.port = a.port]]
  /\ UNCHANGED <<aux, version, cfg, endpoints, mu, closed, closeCh, closeOnce, wg,
                 panicked, rl, disc, cl, hist>>

\* DialContext, the closed check and parseAddress.
DialEntry(c) ==
  /\ dl[c].pc = "entry"
  /\ LET a == parseAddress(dl[c].address)
     IN dl' = [dl EXCEPT ![c] =
                 IF closed THEN Done(@, ErrClosed("DialContext"))
                 ELSE IF a.err # "" THEN Done(@, Err("invalid address", "DialContext"))
                 ELSE [@ EXCEPT !.pc = "lookup1", !.hostname = a.hostname,
                                !.port = a.port]]
  /\ UNCHANGED <<aux, version, cfg, endpoints, mu, closed, closeCh, closeOnce, wg,
                 panicked, rl, disc, cl, hist>>

\* A first lookup that calls DiscoverEndpoints also for a known hostname.
DialLookupFirstAlways(c) ==
  /\ version = "dialer.go"
  /\ dl[c].pc = "lookup1"
  /\ CanRLock
  /\ dl' = [dl EXCEPT ![c].pc = "discover"]
  /\ disc' = [disc EXCEPT ![c].pc = "check"]
  /\ UNCHANGED <<aux, version, cfg, endpoints, mu, closed, closeCh, closeOnce, wg,
                 panicked, rl, cl, hist>>

\* dialer.go: the first isKnownEndpoint; a miss calls DiscoverEndpoints.
DialLookupFirst(c) ==
  /\ version = "dialer.go"
  /\ dl[c].pc = "lookup1"
  /\ CanRLock
  /\ IF isKnownEndpoint(dl[c].hostname)
     THEN /\ dl' = [dl EXCEPT ![c].pc = "lookup2"]
          /\ UNCHANGED disc
     ELSE /\ dl' = [dl EXCEPT ![c].pc = "discover"]
          /\ disc' = [disc EXCEPT ![c].pc = "check"]
  /\ UNCHANGED <<aux, version, cfg, endpoints, mu, closed, closeCh, closeOnce, wg,
                 panicked, rl, cl, hist>>

\* A loop that runs once too often.
retryAgainOffByOne(attempt, maxRetries) == attempt <= maxRetries + 1

\* The loop condition of dialWithRetry: attempt <= cfg.MaxRetries.
retryAgain(attempt, maxRetries) == attempt <= maxRetries

\* A fallback call that is handed the parsed hostname.
fallbackArgsParsed(network, address, hostname, port) ==
  [network |-> network, address |-> hostname]

\* The arguments DialContext hands to the fallback (default) dialer.
fallbackArgs(network, address, hostname, port) ==
  [network |-> network, address |-> address]

\* The lookup that routes the call (the second one of dialer.go, the only
\* one of part_010): an unknown hostname goes to the fallback dialer or
\* fails, a known one is dialed through the ingress.
DialRoute(c) ==
  /\ dl[c].pc = IF version = "dialer.go" THEN "lookup2" ELSE "lookup1"
  /\ CanRLock
  /\ IF ~isKnownEndpoint(dl[c].hostname)
     THEN IF cfg.fallback
          THEN \E r \in {"conn", "error"} :
                 dl' = [dl EXCEPT ![c] =
                          Done([@ EXCEPT !.fb = Append(@,
                                   [args |-> fallbackArgs(dl[c].network, dl[c].address,
                                                          dl[c].hostname, dl[c].port),
                                    ret |-> Err(r, "fallback")])],
                               Err(r, "fallback"))]
          ELSE dl' = [dl EXCEPT ![c] = Done(@, EndpointNotFoundError(dl[c].hostname))]
     ELSE dl' = [dl EXCEPT ![c] =
                   IF version = "dialer.go" THEN [@ EXCEPT !.pc = "tcp"]
                   ELSE IF retryAgain(0, cfg.MaxRetries)
                   THEN [@ EXCEPT !.pc = "connect", !.attempt = 0]
                   ELSE Done(@, @.lastErr)]
  /\ UNCHANGED <<aux, version, cfg, endpoints, mu, closed, closeCh, closeOnce, wg,
                 panicked, rl, disc, cl, hist>>

\* ---------------------------------------------------------- dialWithRetry

\* A retry loop that keeps the error of its first failed attempt.
AttemptFailedFirstErr(rec, err) ==
  LET first == IF rec.lastErr = NoErr THEN err ELSE rec.lastErr
  IN IF rec.ctxDone THEN Done([rec EXCEPT !.lastErr = first], CtxErr)
     ELSE IF retryAgain(rec.attempt + 1, cfg.MaxRetries)
     THEN [rec EXCEPT !.lastErr = first, !.attempt = @ + 1, !.pc = "backoff"]
     ELSE Done([rec EXCEPT !.lastErr = first, !.attempt = @ + 1], first)

\* A retry loop that goes on to the next attempt without a backoff.
AttemptFailedNoWait(rec, err) ==
  IF rec.ctxDone THEN Done([rec EXCEPT !.lastErr = err], CtxErr)
  ELSE IF retryAgain(rec.attempt + 1, cfg.MaxRetries)
  THEN [rec EXCEPT !.lastErr = err, !.attempt = @ + 1, !.pc = "connect"]
  ELSE Done([rec EXCEPT !.lastErr = err, !.attempt = @ + 1], err)

\* A retry loop that does not look at the context after a failed attempt.
AttemptFailedNoCtx(rec, err) ==
  IF retryAgain(rec.attempt + 1, cfg.MaxRetries)
  THEN [rec EXCEPT !.lastErr = err, !.attempt = @ + 1, !.pc = "backoff"]
  ELSE Done([rec EXCEPT !.lastErr = err, !.attempt = @ + 1], err)

\* part_010: what dialWithRetry does when dialOnce returned err: a done
\* context ends the call with ctx.Err(), otherwise attempt++ and either the
\* backoff of the next attempt or the return of lastErr.
AttemptFailed(rec, err) ==
  IF rec.ctxDone THEN Done([rec EXCEPT !.lastErr = err], CtxErr)
  ELSE IF retryAgain(rec.attempt + 1, cfg.MaxRetries)
  THEN [rec EXCEPT !.lastErr = err, !.attempt = @ + 1, !.pc = "backoff"]
  ELSE Done([rec EXCEPT !.lastErr = err, !.attempt = @ + 1], err)

\* part_010: dialWithRetry reaches its select.  A case that is ready is taken
\* (any of them when several are); with none ready the goroutine parks, and
\* the first event to come takes it out.
SelectEnter(c) ==
  /\ dl[c].pc = "backoff"
  /\ LET ready == ({"ctx"} \cap {x \in backoffCases : dl[c].ctxDone})
                    \cup ({"close"} \cap {x \in backoffCases : closeCh})
                    \cup ({"timer"} \cap backoffCases)
     IN \/ \E s \in ready :
             dl' = [dl EXCEPT ![c].pc = "woken", ![c].sel = s, ![c].nWaits = @ + 1]
        \/ /\ ready \subseteq {"timer"}
           /\ dl' = [dl EXCEPT ![c].pc = "parked", ![c].nWaits = @ + 1]
  /\ UNCHANGED <<aux, version, cfg, endpoints, mu, closed, closeCh, closeOnce, wg,
                 panicked, rl, disc, cl, hist>>

\* The backoff timer fires while the caller is parked.
TimerFire(c) ==
  /\ dl[c].pc = "parked"
  /\ dl' = [dl EXCEPT ![c] = Wake(@, "timer")]
  /\ dl'[c] # dl[c]
  /\ UNCHANGED <<aux, version, cfg, endpoints, mu, closed, closeCh, closeOnce, wg,
                 panicked, rl, disc, cl, hist>>

\* The body of the case the select took.
SelectResume(c) ==
  /\ dl[c].pc = "woken"
  /\ dl' = [dl EXCEPT ![c] =
              IF @.sel = "ctx" THEN Done(@, CtxErr)
              ELSE IF @.sel = "close" THEN Done(@, ErrClosed("dialWithRetry"))
              ELSE [@ EXCEPT !.pc = "connect"]]
  /\ UNCHANGED <<aux, version, cfg, endpoints, mu, closed, closeCh, closeOnce, wg,
                 panicked, rl, disc, cl, hist>>

\* part_010: dialOnce, tls.Dialer.DialContext to the ingress (TCP connect and
\* TLS handshake).  It cannot succeed once the context is done.
DialOnceConnect(c) ==
  /\ version = "part_010"
  /\ dl[c].pc = "connect"
  /\ \/ dl' = [dl EXCEPT ![c] =
                 AttemptFailed([@ EXCEPT !.nAttempts = @ + 1],
                               Err("DialError", "dialOnce"))]
     \/ /\ ~dl[c].ctxDone
        /\ dl' = [dl EXCEPT ![c] = openConn([@ EXCEPT !.nAttempts = @ + 1,
                                                       !.pc = "upgrade"])]
  /\ UNCHANGED <<aux, version, cfg, endpoints, mu, closed, closeCh, closeOnce, wg,
                 panicked, rl, disc, cl, hist>>

\* dialer.go: dial, IngressDialer.DialContext (the TCP connect).
DialTCP(c) ==
  /\ version = "dialer.go"
  /\ dl[c].pc = "tcp"
  /\ \/ dl' = [dl EXCEPT ![c] = Done([@ EXCEPT !.nAttempts = @ + 1],
                                     Err("dial", "dial"))]
     \/ /\ ~dl[c].ctxDone
        /\ dl' = [dl EXCEPT ![c] = openConn([@ EXCEPT !.nAttempts = @ + 1,
                                                       !.pc = "tls"])]
  /\ UNCHANGED <<aux, version, cfg, endpoints, mu, closed, closeCh, closeOnce, wg,
                 panicked, rl, disc, cl, hist>>

\* dialer.go: dial, tlsConn.HandshakeContext; a failure closes the TCP
\* connection.
DialTLS(c) ==
  /\ version = "dialer.go"
  /\ dl[c].pc = "tls"
  /\ \/ dl' = [dl EXCEPT ![c] = Done(closeConn(@), Err("TLS handshake", "dial"))]
     \/ /\ ~dl[c].ctxDone
        /\ dl' = [dl EXCEPT ![c].pc = "upgrade"]
  /\ UNCHANGED <<aux, version, cfg, endpoints, mu, closed, closeCh, closeOnce, wg,
                 panicked, rl, disc, cl, hist>>

\* upgradeToBinding on the open connection: the frame exchange fails, the
\* relay answers with an error code or message, or it accepts.  A failure
\* closes the connection; part_010 then retries, dialer.go returns.
DialUpgrade(c) ==
  /\ dl[c].pc = "upgrade"
  /\ \E r \in {"ok", "io", "refused"} :
       dl' = [dl EXCEPT ![c] =
                IF r = "ok" THEN Done(@, Err("conn", "ingress"))
                ELSE IF version = "part_010"
                THEN AttemptFailed(closeConn(@), Err("UpgradeError", "dialOnce"))
                ELSE Done(closeConn(@), Err("upgrade", "dial"))]
  /\ UNCHANGED <<aux, version, cfg, endpoints, mu, closed, closeCh, closeOnce, wg,
                 panicked, rl, disc, cl, hist>>

\* ------------------------------------------------------------ specification

Next ==
  \/ \E p \in Procs : DiscCheck(p) \/ DiscFetch(p) \/ DiscStore(p)
  \/ RefreshExit
  \/ RefreshTick
  \/ \E k \in Closers :
       CloseCall(k) \/ CloseOnceDo(k) \/ CloseStore(k) \/ CloseChan(k) \/ CloseWait(k)
  \/ \E c \in Callers :
       \/ DialCall(c) \/ DiscoverCall(c) \/ Cancel(c) \/ DialEntry(c) \/ DialLookupFirst(c)
       \/ DialRoute(c) \/ SelectEnter(c) \/ TimerFire(c) \/ SelectResume(c)
       \/ DialOnceConnect(c) \/ DialTCP(c) \/ DialTLS(c) \/ DialUpgrade(c)

Spec == Init /\ [][Next]_vars

\* A goroutine inside Close or DiscoverEndpoints that can take a step takes
\* one in the end, an HTTP call to the directory returns (the client and the
\* poll's context time out after 30 s), and a refresh goroutine waiting in
\* its select with closeCh closed and no tick left takes the closeCh case.
FairSpec ==
  /\ Spec
  /\ WF_vars(\E k \in Closers : CloseOnceDo(k) \/ CloseStore(k) \/ CloseChan(k) \/ CloseWait(k))
  /\ WF_vars(\E p \in Procs : DiscCheck(p) \/ DiscFetch(p) \/ DiscStore(p))
  /\ WF_vars(RefreshExit)

\* FairSpec, and a caller's goroutine that has parsed its address takes the
\* steps it can take: lookups, the select and its timer, and the connect to
\* the ingress, which the dial timeout bounds.  The relay's answer to a
\* binding request (DialUpgrade) and the cancellation of a context are not
\* promised.
FairDialSpec ==
  /\ FairSpec
  /\ \A c \in Callers :
       WF_vars(DialLookupFirst(c) \/ DialRoute(c) \/ SelectEnter(c)
               \/ TimerFire(c) \/ SelectResume(c) \/ DialOnceConnect(c)
               \/ DialTCP(c) \/ DialTLS(c))

\* ------------------------------------------- one discovery followed alone

\* The entries a listing is made of: two with the same URL, two with
\* different URLs and the same hostname.
RawEntries == {EpA, EpADup, EpB, EpB2}

Listings == UNION {[1..n -> RawEntries] : n \in 0..MaxListing}

\* The directory's answer that returns listing raw as it is.
Answer(raw) ==
  [primaryOk |-> TRUE, primary |-> raw, secondaryOk |-> FALSE, secondary |-> <<>>]

ListingInit ==
  /\ DialerRest
  /\ WireIdle
  /\ BkIdle
  /\ CsIdle
  /\ PvIdle
  /\ PaIdle
  /\ NdIdle
  /\ \E raw \in Listings :
       lst = [pc |-> "listed", raw |-> raw, eps |-> <<>>, cache |-> EmptyMap, round |-> 1]

\* DiscoverEndpoints calls discoverEndpoints.
ListingDiscover ==
  /\ lst.pc = "listed"
  /\ lst' = [lst EXCEPT !.pc = "discovered",
                        !.eps = discoverEndpoints(cfg.operatorID, Answer(lst.raw)).eps]
  /\ UNCHANGED <<dialerVars, wire, bk, cs, pv, pa, nd>>

\* DiscoverEndpoints replaces the cache and fills it.
ListingStore ==
  /\ lst.pc = "discovered"
  /\ lst' = [lst EXCEPT !.pc = "cached",
                        !.cache = StoreAll(newCache(lst.cache, lst.eps), lst.eps)]
  /\ UNCHANGED <<dialerVars, wire, bk, cs, pv, pa, nd>>

\* The next poll gets another listing.
ListingAgain ==
  /\ lst.pc = "cached"
  /\ lst.round < MaxRounds
  /\ \E raw \in Listings :
       lst' = [lst EXCEPT !.pc = "listed", !.raw = raw, !.eps = <<>>, !.round = @ + 1]
  /\ UNCHANGED <<dialerVars, wire, bk, cs, pv, pa, nd>>

ListingNext == ListingDiscover \/ ListingStore \/ ListingAgain

ListingSpec == ListingInit /\ [][ListingNext]_vars

\* ------------------------------------ one directory call followed alone

\* The endpoints the /endpoints listing can name, in its order.
KnownIDs == <<"ep_a", "ep_a2", "ep_b", "ep_b2">>

\* The /endpoints listing in which the endpoint at place i of KnownIDs has
\* the bindings of kinds[i]: "k8s", "pub", or "none" for an endpoint that
\* is not listed.
Secondary(kinds) ==
  SelectSeq([i \in 1..Len(KnownIDs) |->
               IF kinds[i] = "k8s" THEN K8s(KnownIDs[i])
               ELSE IF kinds[i] = "pub" THEN Pub(KnownIDs[i])
               ELSE [ID |-> KnownIDs[i], Bindings |-> <<>>]],
            LAMBDA e : e.Bindings # <<>>)

DirectoryInit ==
  /\ DialerRest
  /\ WireIdle
  /\ BkIdle
  /\ CsIdle
  /\ PvIdle
  /\ PaIdle
  /\ NdIdle
  /\ \E raw \in Listings, primaryOk \in BOOLEAN, secondaryOk \in BOOLEAN,
        kinds \in [1..Len(KnownIDs) -> {"k8s", "pub", "none"}] :
       lst = [pc |-> "call", kinds |-> kinds,
              sc |-> [primaryOk |-> primaryOk, primary |-> raw,
                      secondaryOk |-> secondaryOk, secondary |-> Secondary(kinds)],
              out |-> [err |-> "", eps |-> <<>>]]

\* ListBoundEndpoints is called and returns.
DirectoryList ==
  /\ lst.pc = "call"
  /\ lst' = [lst EXCEPT !.pc = "returned", !.out = ListBoundEndpoints(lst.sc)]
  /\ UNCHANGED <<dialerVars, wire, bk, cs, pv, pa, nd>>

DirectoryNext == DirectoryList

DirectorySpec == DirectoryInit /\ [][DirectoryNext]_vars

\* ----------------------------------------------- one frame followed alone

\* The hosts of the requests: empty, short, at the one-byte and two-byte
\* limits of the length varint, and around the largest body a frame holds.
HostLengths == {0, 1, 3, 127, 128, 65529, 65530, 65531, 65538}

\* The host of n bytes: "a.a.a..."; a request is kept as the length of its
\* host and its port.
Host(n) == [i \in 1..n |-> IF i % 2 = 1 THEN 97 ELSE 46]

Ports == {0, 1, 80, 443, 65535}

\* The bytes the bodies of responses are made of: the tags of field 1 and
\* field 3 (length-delimited), of field 2 as a varint and of field 1 as a
\* 32-bit value, small numbers, a letter and a varint continuation byte.
BodyBytes == {0, 1, 2, 10, 13, 16, 26, 97, 128}

Bodies == UNION {[1..n -> BodyBytes] : n \in 0..MaxBody}

\* The relay's frame for a body: the length as declared, then the body.
FrameOf(body) == LittleEndian16(Len(body)) \o body

CodecInit ==
  /\ DialerRest
  /\ LstIdle
  /\ BkIdle
  /\ CsIdle
  /\ PvIdle
  /\ PaIdle
  /\ NdIdle
  /\ \/ \E n \in HostLengths, port \in Ports :
          wire = [pc |-> "request", hostLen |-> n, port |-> port, err |-> "",
                  frame |-> <<>>, out |-> "", dec |-> <<>>]
     \/ \E body \in Bodies :
          wire = [pc |-> "response", hostLen |-> 0, port |-> 0, err |-> "",
                  frame |-> FrameOf(body), out |-> "", dec |-> <<>>]

\* upgradeToBinding writes the request.
CodecWrite ==
  /\ wire.pc = "request"
  /\ LET r == writeProtoMessage(Host(wire.hostLen), wire.port)
     IN wire' = [wire EXCEPT !.pc = "written", !.err = r.err, !.frame = r.written]
  /\ UNCHANGED <<dialerVars, lst, bk, cs, pv, pa, nd>>

\* readBindingResponse / readProtoMessage: the length, that many bytes of
\* body, and the decoding.
CodecRead ==
  /\ wire.pc = "response"
  /\ LET length == wire.frame[1] + 256 * wire.frame[2]
         buf == SubSeq(wire.frame, 3, 2 + length)
         r == unmarshal(buf, 0, ConnResponse0)
     IN wire' = [wire EXCEPT !.pc = "read", !.out = r.out, !.dec = r.resp]
  /\ UNCHANGED <<dialerVars, lst, bk, cs, pv, pa, nd>>

\* The peer reads the request that was written.
CodecPeerRead ==
  /\ wire.pc = "written"
  /\ LET r == readRequest(wire.frame)
     IN wire' = [wire EXCEPT !.pc = "decoded", !.out = r.out, !.dec = r.req,
                            !.frame = <<wire.frame[1], wire.frame[2]>>]
  /\ UNCHANGED <<dialerVars, lst, bk, cs, pv, pa, nd>>

CodecNext == CodecWrite \/ CodecRead \/ CodecPeerRead

CodecSpec == CodecInit /\ [][CodecNext]_vars

\* ------------------------------------------ the backoff of one dial alone

\* The retry configuration whose waits are followed.
RetryConfig ==
  [MaxRetries |-> 3, InitialBackoff |-> Ms(100), MaxBackoff |-> Ms(5000),
   BackoffMultiplier |-> 2]

BackoffInit ==
  /\ DialerRest
  /\ LstIdle
  /\ WireIdle
  /\ CsIdle
  /\ PvIdle
  /\ PaIdle
  /\ NdIdle
  /\ bk = [pc |-> "attempt", attempt |-> 0, wait |-> 0]

\* dialWithRetry: the attempt fails, and the loop goes on to the backoff of
\* the next attempt, which it computes and waits for.
BackoffWait ==
  /\ bk.pc = "attempt"
  /\ bk.attempt + 1 <= RetryConfig.MaxRetries
  /\ \E k \in 0..(JitterSteps - 1) :
       bk' = [bk EXCEPT !.attempt = @ + 1, !.pc = "wait",
                       !.wait = calculateBackoff(bk.attempt + 1, RetryConfig, k)]
  /\ UNCHANGED <<dialerVars, lst, wire, cs, pv, pa, nd>>

\* The timer fires and the next attempt is made.
BackoffAttempt ==
  /\ bk.pc = "wait"
  /\ bk' = [bk EXCEPT !.pc = "attempt"]
  /\ UNCHANGED <<dialerVars, lst, wire, cs, pv, pa, nd>>

BackoffNext == BackoffWait \/ BackoffAttempt

BackoffSpec == BackoffInit /\ [][BackoffNext]_vars

\* --------------------------------------------- one backoff computed alone

\* Retry configurations with positive fields: the cap below, between and
\* above the backoffs that the retry indexes reach.
RetryConfigs ==
  [MaxRetries : {MaxAttempt}, InitialBackoff : {Ms(1), Ms(10)},
   MaxBackoff : {Ms(1), Ms(5), Ms(15), Ms(500)}, BackoffMultiplier : {1, 2, 3}]

CapInit ==
  /\ DialerRest
  /\ LstIdle
  /\ WireIdle
  /\ CsIdle
  /\ PvIdle
  /\ PaIdle
  /\ NdIdle
  /\ \E rc \in RetryConfigs, attempt \in 1..MaxAttempt :
       bk = [pc |-> "call", attempt |-> attempt, wait |-> 0, rc |-> rc]

\* dialWithRetry computes the wait before a retry.
CapCompute ==
  /\ bk.pc = "call"
  /\ \E k \in 0..(JitterSteps - 1) :
       bk' = [bk EXCEPT !.pc = "computed",
                       !.wait = calculateBackoff(bk.attempt, bk.rc, k)]
  /\ UNCHANGED <<dialerVars, lst, wire, cs, pv, pa, nd>>

CapNext == CapCompute

CapSpec == CapInit /\ [][CapNext]_vars

\* ------------------------------------- one certificate store followed alone

\* The identities that callers save: a key, a certificate and an operator
\* ID, which may be empty.
IdA == [key |-> "k1", cert |-> "c1", operatorID |-> "op_1"]
IdB == [key |-> "k2", cert |-> "c2", operatorID |-> ""]
Identities == {IdA, IdB}

\* The goroutines that call the store.
StoreProcs == {"s1", "s2"}

\* A file that does not exist.
NoFile == [exists |-> FALSE, data |-> ""]

\* A file that a failed write has left empty.
Truncated == [exists |-> TRUE, data |-> ""]

\* A write that leaves a file that exists as it is.
WriteFileKeep(f, data) == IF f.exists THEN f ELSE [exists |-> TRUE, data |-> data]

\* os.WriteFile: the file is created or truncated, and holds data.
WriteFile(f, data) == [exists |-> TRUE, data |-> data]

\* os.ReadFile.
ReadFile(f) == [err |-> ~f.exists, data |-> IF f.exists THEN f.data ELSE ""]

\* os.Stat returns no error.
Stat(f) == f.exists

\* The zero MemoryStore.
MemoryStore0 == [key |-> "", cert |-> "", operatorID |-> "", stored |-> FALSE]

\* What a call has returned, or has read so far.  quiet, exp and twice are
\* taken when the call starts: no Save is unfinished or has failed since the
\* last Save that ran alone and returned nil; the identity of that Save, if
\* any; and whether the Save before it saved the same identity.
Ret0(op) ==
  [op |-> op, err |-> FALSE, exists |-> FALSE, key |-> "", cert |-> "",
   operatorID |-> "", quiet |-> cs.clean, exp |-> cs.last, twice |-> cs.same]

InSave(q) == cs.proc[q].pc \in {"write_key", "write_cert", "write_op"}

\* The store and its callers after NewMemoryStore, NewMemoryStoreWithCert or
\* NewFileStore over a directory that does not exist yet.
StoreInit ==
  /\ DialerRest
  /\ LstIdle
  /\ WireIdle
  /\ BkIdle
  /\ PvIdle
  /\ PaIdle
  /\ NdIdle
  /\ \E ctor \in {"NewMemoryStore", "NewMemoryStoreWithCert", "NewFileStore"},
        pre \in Identities :
       cs = [kind |-> IF ctor = "NewFileStore" THEN "file" ELSE "memory",
             ctor |-> ctor,
             pre |-> IF ctor = "NewMemoryStoreWithCert" THEN pre ELSE IdA,
             mem |-> IF ctor = "NewMemoryStoreWithCert"
                       THEN [key |-> pre.key, cert |-> pre.cert,
                             operatorID |-> pre.operatorID, stored |-> TRUE]
                       ELSE MemoryStore0,
             mu |-> [w |-> "", r |-> {}],
             given |-> IF ctor = "NewMemoryStoreWithCert" THEN {pre} ELSE {},
             dir |-> FALSE,
             files |-> [key |-> NoFile, cert |-> NoFile, operator |-> NoFile],
             proc |-> [p \in StoreProcs |->
                         [pc |-> "idle", id |-> IdA,
                          ret |-> [op |-> "", err |-> FALSE, exists |-> FALSE,
                                   key |-> "", cert |-> "", operatorID |-> "",
                                   quiet |-> FALSE, exp |-> <<>>, twice |-> FALSE]]],
             clean |-> TRUE, last |-> <<>>, same |-> FALSE]

Idle(p) == cs.kind # "off" /\ cs.proc[p].pc = "idle"

\* s.mu.RLock() does not block: no writer holds the lock.
StoreCanRLockNoLock == TRUE

StoreCanRLock == cs.mu.w = ""

\* s.mu.Lock() does not block: nobody holds the lock.
StoreCanLock == cs.mu.w = "" /\ cs.mu.r = {}

\* MemoryStore.Exists: s.mu.RLock().
MemExistsRLock(p) ==
  /\ Idle(p) /\ cs.kind = "memory"
  /\ StoreCanRLock
  /\ cs' = [cs EXCEPT !.mu.r = @ \cup {p},
                      !.proc[p].pc = "mx_stored",
                      !.proc[p].ret = Ret0("Exists")]
  /\ UNCHANGED <<dialerVars, lst, wire, bk, pv, pa, nd>>

\* MemoryStore.Exists: s.stored is read and returned, and the lock released.
MemExistsReturn(p) ==
  /\ cs.kind = "memory" /\ cs.proc[p].pc = "mx_stored"
  /\ cs' = [cs EXCEPT !.mu.r = @ \ {p},
                      !.proc[p].pc = "idle",
                      !.proc[p].ret.exists = cs.mem.stored]
  /\ UNCHANGED <<dialerVars, lst, wire, bk, pv, pa, nd>>

\* MemoryStore.Load: s.mu.RLock().
MemLoadRLock(p) ==
  /\ Idle(p) /\ cs.kind = "memory"
  /\ StoreCanRLock
  /\ cs' = [cs EXCEPT !.mu.r = @ \cup {p},
                      !.proc[p].pc = "ml_stored",
                      !.proc[p].ret = Ret0("Load")]
  /\ UNCHANGED <<dialerVars, lst, wire, bk, pv, pa, nd>>

\* MemoryStore.Load: without a stored certificate Load returns an error.
MemLoadStored(p) ==
  /\ cs.kind = "memory" /\ cs.proc[p].pc = "ml_stored"
  /\ cs' = IF cs.mem.stored
             THEN [cs EXCEPT !.proc[p].pc = "ml_key"]
             ELSE [cs EXCEPT !.mu.r = @ \ {p},
                             !.proc[p].pc = "idle",
                             !.proc[p].ret.err = TRUE]
  /\ UNCHANGED <<dialerVars, lst, wire, bk, pv, pa, nd>>

\* MemoryStore.Load: s.key is read.
MemLoadKey(p) ==
  /\ cs.kind = "memory" /\ cs.proc[p].pc = "ml_key"
  /\ cs' = [cs EXCEPT !.proc[p].pc = "ml_cert", !.proc[p].ret.key = cs.mem.key]
  /\ UNCHANGED <<dialerVars, lst, wire, bk, pv, pa, nd>>

\* MemoryStore.Load: s.cert is read.
MemLoadCert(p) ==
  /\ cs.kind = "memory" /\ cs.proc[p].pc = "ml_cert"
  /\ cs' = [cs EXCEPT !.proc[p].pc = "ml_op", !.proc[p].ret.cert = cs.mem.cert]
  /\ UNCHANGED <<dialerVars, lst, wire, bk, pv, pa, nd>>

\* MemoryStore.Load: s.operatorID is read, Load returns and the lock is
\* released.
MemLoadOperator(p) ==
  /\ cs.kind = "memory" /\ cs.proc[p].pc = "ml_op"
  /\ cs' = [cs EXCEPT !.mu.r = @ \ {p},
                      !.proc[p].pc = "idle",
                      !.proc[p].ret.operatorID = cs.mem.operatorID]
  /\ UNCHANGED <<dialerVars, lst, wire, bk, pv, pa, nd>>

\* MemoryStore.Save: s.mu.Lock().
MemSaveLock(p) ==
  /\ Idle(p) /\ cs.kind = "memory"
  /\ StoreCanLock
  /\ \E id \in Identities :
       cs' = [cs EXCEPT !.mu.w = p,
                        !.given = @ \cup {id},
                        !.proc[p].pc = "ms_key",
                        !.proc[p].id = id,
                        !.proc[p].ret = Ret0("Save")]
  /\ UNCHANGED <<dialerVars, lst, wire, bk, pv, pa, nd>>

\* MemoryStore.Save: s.key becomes a copy of key.
MemSaveKey(p) ==
  /\ cs.kind = "memory" /\ cs.proc[p].pc = "ms_key"
  /\ cs' = [cs EXCEPT !.proc[p].pc = "ms_cert", !.mem.key = cs.proc[p].id.key]
  /\ UNCHANGED <<dialerVars, lst, wire, bk, pv, pa, nd>>

\* MemoryStore.Save: s.cert becomes a copy of cert.
MemSaveCert(p) ==
  /\ cs.kind = "memory" /\ cs.proc[p].pc = "ms_cert"
  /\ cs' = [cs EXCEPT !.proc[p].pc = "ms_op", !.mem.cert = cs.proc[p].id.cert]
  /\ UNCHANGED <<dialerVars, lst, wire, bk, pv, pa, nd>>

\* MemoryStore.Save: s.operatorID is set.
MemSaveOperator(p) ==
  /\ cs.kind = "memory" /\ cs.proc[p].pc = "ms_op"
  /\ cs' = [cs EXCEPT !.proc[p].pc = "ms_stored",
                      !.mem.operatorID = cs.proc[p].id.operatorID]
  /\ UNCHANGED <<dialerVars, lst, wire, bk, pv, pa, nd>>

\* MemoryStore.Save: s.stored is set, Save returns nil and the lock is
\* released.
MemSaveStored(p) ==
  /\ cs.kind = "memory" /\ cs.proc[p].pc = "ms_stored"
  /\ cs' = [cs EXCEPT !.mu.w = "",
                      !.mem.stored = TRUE,
                      !.proc[p].pc = "idle",
                      !.last = <<cs.proc[p].id>>,
                      !.same = (cs.last = <<cs.proc[p].id>>)]
  /\ UNCHANGED <<dialerVars, lst, wire, bk, pv, pa, nd>>

\* FileStore.Exists: os.Stat of the key.
FileStatKey(p) ==
  /\ Idle(p) /\ cs.kind = "file"
  /\ cs' = [cs EXCEPT !.proc[p].pc = "stat_cert",
                      !.proc[p].ret = [Ret0("Exists") EXCEPT !.exists = Stat(cs.files.key)]]
  /\ UNCHANGED <<dialerVars, lst, wire, bk, pv, pa, nd>>

\* FileStore.Exists: os.Stat of the certificate, and the return.
FileStatCert(p) ==
  /\ cs.kind = "file" /\ cs.proc[p].pc = "stat_cert"
  /\ cs' = [cs EXCEPT !.proc[p].pc = "idle",
                      !.proc[p].ret.exists = @ /\ Stat(cs.files.cert)]
  /\ UNCHANGED <<dialerVars, lst, wire, bk, pv, pa, nd>>

\* FileStore.Load: the key is read.
FileLoadKey(p) ==
  /\ Idle(p) /\ cs.kind = "file"
  /\ LET r == ReadFile(cs.files.key)
     IN cs' = [cs EXCEPT !.proc[p].pc = IF r.err THEN "idle" ELSE "load_cert",
                         !.proc[p].ret = [Ret0("Load") EXCEPT !.err = r.err, !.key = r.data]]
  /\ UNCHANGED <<dialerVars, lst, wire, bk, pv, pa, nd>>

\* FileStore.Load: the certificate is read.
FileLoadCert(p) ==
  /\ cs.kind = "file" /\ cs.proc[p].pc = "load_cert"
  /\ LET r == ReadFile(cs.files.cert)
     IN cs' = [cs EXCEPT !.proc[p].pc = IF r.err THEN "idle" ELSE "load_op",
                         !.proc[p].ret.err = r.err,
                         !.proc[p].ret.key = IF r.err THEN "" ELSE @,
                         !.proc[p].ret.cert = r.data]
  /\ UNCHANGED <<dialerVars, lst, wire, bk, pv, pa, nd>>

\* FileStore.Load: the operator ID is read, an error counts as no operator
\* ID, and Load returns.
FileLoadOperator(p) ==
  /\ cs.kind = "file" /\ cs.proc[p].pc = "load_op"
  /\ cs' = [cs EXCEPT !.proc[p].pc = "idle",
                      !.proc[p].ret.operatorID = ReadFile(cs.files.operator).data]
  /\ UNCHANGED <<dialerVars, lst, wire, bk, pv, pa, nd>>

\* The callers as a Save of p starts: the store is unsettled until a Save
\* that ran alone returns nil, and no call in progress is quiet any more.
SaveStarts(p, id, pc, err) ==
  [q \in StoreProcs |->
     IF q = p
       THEN [pc |-> pc, id |-> id,
             ret |-> [Ret0("Save") EXCEPT
                        !.err = err,
                        !.quiet = \A o \in StoreProcs \ {p} : ~InSave(o),
                        !.exp = IF cs.clean THEN cs.last ELSE <<>>]]
       ELSE IF cs.proc[q].pc = "idle" THEN cs.proc[q]
            ELSE [cs.proc[q] EXCEPT !.ret.quiet = FALSE]]

\* FileStore.Save: os.MkdirAll, which can fail where there is no directory.
FileSaveMkdir(p) ==
  /\ Idle(p) /\ cs.kind = "file"
  /\ \E id \in Identities, ok \in BOOLEAN :
       /\ ~ok => ~cs.dir
       /\ cs' = [cs EXCEPT !.dir = @ \/ ok,
                           !.given = @ \cup {id},
                           !.clean = FALSE,
                           !.proc = SaveStarts(p, id, IF ok THEN "write_key" ELSE "idle", ~ok)]
  /\ UNCHANGED <<dialerVars, lst, wire, bk, pv, pa, nd>>

\* The outcomes of an os.WriteFile: done, refused with the file as it was,
\* or failed with the file left empty.
WriteOutcomes == {"ok", "refused", "truncated"}

\* The files after the os.WriteFile of file name with outcome out.
Written(name, data, out) ==
  [cs.files EXCEPT ![name] =
     IF out = "ok" THEN WriteFile(@, data)
     ELSE IF out = "truncated" THEN Truncated ELSE @]

\* FileStore.Save: the key is written.
FileSaveKey(p) ==
  /\ cs.kind = "file" /\ cs.proc[p].pc = "write_key"
  /\ \E out \in WriteOutcomes :
       cs' = [cs EXCEPT !.files = Written("key", cs.proc[p].id.key, out),
                        !.proc[p].pc = IF out = "ok" THEN "write_cert" ELSE "idle",
                        !.proc[p].ret.err = out # "ok"]
  /\ UNCHANGED <<dialerVars, lst, wire, bk, pv, pa, nd>>

\* FileStore.Save: the certificate is written.
FileSaveCert(p) ==
  /\ cs.kind = "file" /\ cs.proc[p].pc = "write_cert"
  /\ \E out \in WriteOutcomes :
       cs' = [cs EXCEPT !.files = Written("cert", cs.proc[p].id.cert, out),
                        !.proc[p].pc = IF out = "ok" THEN "write_op" ELSE "idle",
                        !.proc[p].ret.err = out # "ok"]
  /\ UNCHANGED <<dialerVars, lst, wire, bk, pv, pa, nd>>

\* FileStore.Save: the operator ID is written and Save returns.  A Save that
\* ran alone and returns nil settles the store.
FileSaveOperator(p) ==
  /\ cs.kind = "file" /\ cs.proc[p].pc = "write_op"
  /\ \E out \in WriteOutcomes :
       LET settles == out = "ok" /\ cs.proc[p].ret.quiet
       IN cs' = [cs EXCEPT !.files = Written("operator", cs.proc[p].id.operatorID, out),
                           !.proc[p].pc = "idle",
                           !.proc[p].ret.err = out # "ok",
                           !.clean = IF settles THEN TRUE ELSE @,
                           !.last = IF settles THEN <<cs.proc[p].id>> ELSE @,
                           !.same = IF settles
                                      THEN cs.proc[p].ret.exp = <<cs.proc[p].id>>
                                      ELSE @]
  /\ UNCHANGED <<dialerVars, lst, wire, bk, pv, pa, nd>>

StoreNext ==
  \E p \in StoreProcs :
    \/ MemExistsRLock(p)
    \/ MemExistsReturn(p)
    \/ MemLoadRLock(p)
    \/ MemLoadStored(p)
    \/ MemLoadKey(p)
    \/ MemLoadCert(p)
    \/ MemLoadOperator(p)
    \/ MemSaveLock(p)
    \/ MemSaveKey(p)
    \/ MemSaveCert(p)
    \/ MemSaveOperator(p)
    \/ MemSaveStored(p)
    \/ FileStatKey(p)
    \/ FileStatCert(p)
    \/ FileLoadKey(p)
    \/ FileLoadCert(p)
    \/ FileLoadOperator(p)
    \/ FileSaveMkdir(p)
    \/ FileSaveKey(p)
    \/ FileSaveCert(p)
    \/ FileSaveOperator(p)

StoreSpec == StoreInit /\ [][StoreNext]_vars

\* ------------------------------- one EnsureCertificate call followed alone

\* tls.X509KeyPair(certPEM, keyPEM) returns no error: the certificate and
\* the key parse and belong together.
X509KeyPair(certPEM, keyPEM) ==
  <<certPEM, keyPEM>> \in {<<"c_old", "k_old">>, <<"c_new", "k_new">>}

\* A store that holds nothing.
EmptyStore == [stored |-> FALSE, key |-> "", cert |-> "", operatorID |-> ""]

\* What the store can hold when EnsureCertificate is called: nothing, an
\* identity with or without operator ID, a key with the certificate of
\* another key, and an empty key file.
StoredBefore ==
  {EmptyStore,
   [stored |-> TRUE, key |-> "k_old", cert |-> "c_old", operatorID |-> "op_old"],
   [stored |-> TRUE, key |-> "k_old", cert |-> "c_old", operatorID |-> ""],
   [stored |-> TRUE, key |-> "k_old", cert |-> "c_new", operatorID |-> "op_old"],
   [stored |-> TRUE, key |-> "", cert |-> "c_old", operatorID |-> "op_old"]}

\* The answers of CreateOperator: an error, or an operator with an ID, and
\* with no binding, an empty certificate, the certificate of the request's
\* key, or a certificate that does not go with it.
OperatorResponses ==
  {[err |-> TRUE, ID |-> "", binding |-> FALSE, cert |-> ""]} \cup
  [err : {FALSE}, ID : {"op_new", ""}, binding : {FALSE}, cert : {""}] \cup
  [err : {FALSE}, ID : {"op_new", ""}, binding : {TRUE}, cert : {"", "c_new", "c_bad"}]

\* What EnsureCertificate returns.
EnsureReturn(err, certPEM, keyPEM, operatorID) ==
  [err |-> err, cert |-> IF err = "" THEN <<certPEM, keyPEM>> ELSE <<>>,
   operatorID |-> IF err = "" THEN operatorID ELSE ""]

NoReturn == [err |-> "", cert |-> <<>>, operatorID |-> ""]

ProvisionInit ==
  /\ DialerRest
  /\ LstIdle
  /\ WireIdle
  /\ BkIdle
  /\ CsIdle
  /\ PaIdle
  /\ NdIdle
  /\ \E st \in StoredBefore :
       pv = [pc |-> "exists", store |-> st, before |-> st,
             obs |-> [exists |-> "", load |-> "", parse |-> ""],
             resp |-> [err |-> FALSE, ID |-> "", binding |-> FALSE, cert |-> ""],
             created |-> 0, saved |-> 0, ret |-> NoReturn]

\* EnsureCertificate: p.store.Exists, which a store can fail.
EnsureExists ==
  /\ pv.pc = "exists"
  /\ \E failed \in BOOLEAN :
       pv' = IF failed
               THEN [pv EXCEPT !.pc = "done", !.obs.exists = "err",
                               !.ret = EnsureReturn("failed to check store", "", "", "")]
               ELSE [pv EXCEPT !.pc = IF pv.store.stored THEN "load" ELSE "provision",
                               !.obs.exists = IF pv.store.stored THEN "true" ELSE "false"]
  /\ UNCHANGED <<dialerVars, lst, wire, bk, cs, pa, nd>>

\* A stored identity that does not load or parse is returned as an error.
afterLoadSurfaces(failed, st) ==
  IF failed THEN [pc |-> "done", ret |-> EnsureReturn("failed to load", "", "", "")]
  ELSE IF ~X509KeyPair(st.cert, st.key)
    THEN [pc |-> "done", ret |-> EnsureReturn("failed to parse", "", "", "")]
    ELSE [pc |-> "done", ret |-> EnsureReturn("", st.cert, st.key, st.operatorID)]

\* EnsureCertificate after p.store.Load: the loaded identity is returned if
\* it loads and parses; otherwise the call falls through to provisioning.
afterLoad(failed, st) ==
  IF ~failed /\ X509KeyPair(st.cert, st.key)
    THEN [pc |-> "done", ret |-> EnsureReturn("", st.cert, st.key, st.operatorID)]
    ELSE [pc |-> "provision", ret |-> NoReturn]

\* EnsureCertificate: p.store.Load, which a store can fail, and
\* tls.X509KeyPair of what it returns.
EnsureLoad ==
  /\ pv.pc = "load"
  /\ \E failed \in BOOLEAN :
       LET next == afterLoad(failed, pv.store)
       IN pv' = [pv EXCEPT !.pc = next.pc,
                           !.ret = next.ret,
                           !.obs.load = IF failed THEN "err" ELSE "ok",
                           !.obs.parse = IF failed THEN ""
                                         ELSE IF X509KeyPair(pv.store.cert, pv.store.key)
                                           THEN "ok" ELSE "err"]
  /\ UNCHANGED <<dialerVars, lst, wire, bk, cs, pa, nd>>

\* provisionCertificate: a key is generated, the request is signed and
\* CreateOperator is called; an error, or an answer without certificate, is
\* returned as an error.
ProvisionRegister ==
  /\ pv.pc = "provision"
  /\ \E resp \in OperatorResponses :
       pv' = [pv EXCEPT !.created = @ + 1,
                        !.resp = resp,
                        !.pc = IF resp.err \/ ~resp.binding \/ resp.cert = ""
                                 THEN "done" ELSE "save",
                        !.ret = IF resp.err
                                  THEN EnsureReturn("failed to register", "", "", "")
                                ELSE IF ~resp.binding \/ resp.cert = ""
                                  THEN EnsureReturn("no certificate in response", "", "", "")
                                  ELSE NoReturn]
  /\ UNCHANGED <<dialerVars, lst, wire, bk, cs, pa, nd>>

\* The results of p.store.Save: done, refused with the store as it was, or
\* failed after the key was written.
SaveOutcomes == {"ok", "refused", "torn"}

\* The store after Save(keyPEM, certPEM, operatorID) with result out.
Saved(st, keyPEM, certPEM, operatorID, out) ==
  IF out = "ok"
    THEN [stored |-> TRUE, key |-> keyPEM, cert |-> certPEM, operatorID |-> operatorID]
  ELSE IF out = "torn" THEN [st EXCEPT !.key = keyPEM]
  ELSE st

\* A provisioning that goes on to the key pair whatever Save returns.
ProvisionSaveIgnoresError ==
  /\ pv.pc = "save"
  /\ \E out \in SaveOutcomes :
       pv' = [pv EXCEPT !.saved = @ + 1,
                        !.store = Saved(@, "k_new", pv.resp.cert, pv.resp.ID, out),
                        !.pc = "pair"]
  /\ UNCHANGED <<dialerVars, lst, wire, bk, cs, pa, nd>>

\* provisionCertificate: the new identity is saved; a failure is returned.
ProvisionSave ==
  /\ pv.pc = "save"
  /\ \E out \in SaveOutcomes :
       pv' = [pv EXCEPT !.saved = @ + 1,
                        !.store = Saved(@, "k_new", pv.resp.cert, pv.resp.ID, out),
                        !.pc = IF out = "ok" THEN "pair" ELSE "done",
                        !.ret = IF out = "ok" THEN NoReturn
                                ELSE EnsureReturn("failed to save certificate", "", "", "")]
  /\ UNCHANGED <<dialerVars, lst, wire, bk, cs, pa, nd>>

\* provisionCertificate: tls.X509KeyPair of the new certificate and key, and
\* the return.
ProvisionPair ==
  /\ pv.pc = "pair"
  /\ pv' = [pv EXCEPT !.pc = "done",
                      !.ret = IF X509KeyPair(pv.resp.cert, "k_new")
                                THEN EnsureReturn("", pv.resp.cert, "k_new", pv.resp.ID)
                                ELSE EnsureReturn("tls: key pair", "", "", "")]
  /\ UNCHANGED <<dialerVars, lst, wire, bk, cs, pa, nd>>

ProvisionNext ==
  \/ EnsureExists
  \/ EnsureLoad
  \/ ProvisionRegister
  \/ ProvisionSave
  \/ ProvisionPair

ProvisionSpec == ProvisionInit /\ [][ProvisionNext]_vars

\* -------------------------------------------- one address parsed alone

\* The schemes an address is written with; <<>> is an address without one.
Schemes == {<<>>, HTTP, HTTPS, TCP, TLS}

Hosts == {<<"a">>, <<"a", "p", "p", ".", "e", "x">>, <<"a", "-", "b", ".", "c">>}

\* The ports an address is written with, as text and as number; the text
\* <<>> is an address without port, and the last two are no numbers.
PortTexts ==
  {[text |-> <<>>, val |-> 0, digits |-> FALSE],
   [text |-> <<"8", "0">>, val |-> 80, digits |-> TRUE],
   [text |-> <<"4", "4", "3">>, val |-> 443, digits |-> TRUE],
   [text |-> <<"8", "0", "8", "0">>, val |-> 8080, digits |-> TRUE],
   [text |-> <<"9", "0", "0", "0">>, val |-> 9000, digits |-> TRUE],
   [text |-> <<"0">>, val |-> 0, digits |-> TRUE],
   [text |-> <<"6", "5", "5", "3", "6">>, val |-> 65536, digits |-> TRUE],
   [text |-> <<"x">>, val |-> 0, digits |-> FALSE],
   [text |-> <<"8", "x">>, val |-> 0, digits |-> FALSE]}

\* The address written from a scheme, a host and a port.
Address(scheme, host, port) ==
  (IF scheme = <<>> THEN <<>> ELSE scheme \o <<":", "/", "/">>)
  \o host
  \o (IF port.text = <<>> THEN <<>> ELSE <<":">> \o port.text)

ParseInit ==
  /\ DialerRest
  /\ LstIdle
  /\ WireIdle
  /\ BkIdle
  /\ CsIdle
  /\ PvIdle
  /\ NdIdle
  /\ \E scheme \in Schemes, host \in Hosts, port \in PortTexts :
       pa = [pc |-> "call", scheme |-> scheme, host |-> host, port |-> port,
             out |-> [err |-> "", hostname |-> <<>>, port |-> 0]]

\* parseAddress is called and returns.
ParseCall ==
  /\ pa.pc = "call"
  /\ pa' = [pa EXCEPT !.pc = "returned",
                      !.out = parseAddress(Address(pa.scheme, pa.host, pa.port))]
  /\ UNCHANGED <<dialerVars, lst, wire, bk, cs, pv, nd>>

ParseNext == ParseCall

ParseSpec == ParseInit /\ [][ParseNext]_vars

\* ------------------------------------ one dialer built and used alone

\* The Configs NewDialer is called with, and the NGROK_API_KEY of the
\* environment.  A dialer or store that is not nil is "custom".
Configs ==
  [APIKey : {"", "key"}, env : {"", "key"}, TLSCert : BOOLEAN,
   OperatorID : {"", "op_1"}, CertStore : {"nil", "custom"},
   IngressDialer : {"nil", "custom"}, DefaultDialer : {"nil", "custom"},
   PollingInterval : {0, 5}]

\* Config.setDefaults of the Config that has DefaultDialer.
setDefaults(c) ==
  [c EXCEPT !.APIKey = IF @ = "" THEN c.env ELSE @,
            !.CertStore = IF @ = "nil" THEN "FileStore" ELSE @,
            !.IngressDialer = IF @ = "nil" THEN "net.Dialer" ELSE @,
            !.PollingInterval = IF @ = 0 THEN 30 ELSE @,
            !.DefaultDialer = IF @ = "nil" THEN "net.Dialer" ELSE @]

NoDialer ==
  [defaultDialer |-> "nil", operatorID |-> "", refresh |-> FALSE, err |-> ""]

NewDialerInit ==
  /\ DialerRest
  /\ LstIdle
  /\ WireIdle
  /\ BkIdle
  /\ CsIdle
  /\ PvIdle
  /\ PaIdle
  /\ \E c \in Configs :
       nd = [pc |-> "config", Config |-> c, d |-> NoDialer,
             dial |-> [err |-> "", via |-> ""]]

\* NewDialer: the defaults are set, the certificate is the given one or the
\* one EnsureCertificate returns, and the refresh loop is started.
NewDialerCall ==
  /\ nd.pc = "config"
  /\ LET c == setDefaults(nd.Config)
         built(operatorID) ==
           [nd EXCEPT !.pc = "built",
                      !.d = [defaultDialer |-> c.DefaultDialer,
                             operatorID |-> operatorID,
                             refresh |-> c.PollingInterval > 0, err |-> ""]]
         failed(err) == [nd EXCEPT !.pc = "failed", !.d.err = err]
     IN IF nd.Config.TLSCert THEN nd' = built(c.OperatorID)
        ELSE IF c.APIKey # ""
          THEN \E r \in {"", "op_new", "failed to provision certificate"} :
                 nd' = IF r = "failed to provision certificate"
                         THEN failed(r) ELSE built(r)
          ELSE nd' = failed("either TLSCert or APIKey must be provided")
  /\ UNCHANGED <<dialerVars, lst, wire, bk, cs, pv, pa>>

\* DialContext for a hostname that is no known endpoint, also after the
\* discovery on the miss: the default dialer if there is one, else an
\* EndpointNotFoundError.
routeUnknown(defaultDialer) ==
  IF defaultDialer # "nil" THEN [err |-> "", via |-> defaultDialer]
  ELSE [err |-> "EndpointNotFoundError", via |-> ""]

\* DialContext is called with an address whose hostname is no known
\* endpoint.
NewDialerDialUnknown ==
  /\ nd.pc = "built"
  /\ nd' = [nd EXCEPT !.pc = "dialed", !.dial = routeUnknown(nd.d.defaultDialer)]
  /\ UNCHANGED <<dialerVars, lst, wire, bk, cs, pv, pa>>

NewDialerNext == NewDialerCall \/ NewDialerDialUnknown

NewDialerSpec == NewDialerInit /\ [][NewDialerNext]_vars

\* ------------------------------------- one binding upgrade followed alone

\* The bytes the relay's responses are made of: the tags of fields 1, 3 and
\* 4 (length-delimited) and of field 2 as a varint, the lengths 0 and 1, a
\* letter and a varint continuation byte.
ResponseBytes == {0, 1, 10, 16, 26, 34, 97, 128}

Responses == UNION {[1..n -> ResponseBytes] : n \in 0..MaxBody}

\* binary.Read of the length and io.ReadFull of the body from a connection
\* on which the bytes of stream arrive before it ends, then the decoding:
\* "ok" with the response, "error" for a short read or an unsupported wire
\* type, "panic" when the decoder's slice expression is out of range.
readProtoMessage(stream) ==
  IF Len(stream) < 2 THEN [out |-> "error", resp |-> ConnResponse0]
  ELSE LET length == stream[1] + 256 * stream[2]
       IN IF Len(stream) < 2 + length THEN [out |-> "error", resp |-> ConnResponse0]
          ELSE unmarshal(SubSeq(stream, 3, 2 + length), 0, ConnResponse0)

\* upgradeToBinding that looks at the error code alone.
upgradeToBindingCodeOnly(written, stream) ==
  IF ~written THEN [out |-> "error", err |-> "failed to write request", resp |-> ConnResponse0]
  ELSE LET r == readProtoMessage(stream)
       IN IF r.out = "panic" THEN [out |-> "panic", err |-> "", resp |-> ConnResponse0]
          ELSE IF r.out # "ok"
          THEN [out |-> "error", err |-> "failed to read response", resp |-> ConnResponse0]
          ELSE IF r.resp.ErrorCode # <<>>
          THEN [out |-> "error", err |-> "binding error", resp |-> ConnResponse0]
          ELSE [out |-> "ok", err |-> "", resp |-> r.resp]

\* upgradeToBinding: the request is written, the response read and decoded,
\* and a response with an error code or an error message is an error.
upgradeToBinding(written, stream) ==
  IF ~written THEN [out |-> "error", err |-> "failed to write request", resp |-> ConnResponse0]
  ELSE LET r == readProtoMessage(stream)
       IN IF r.out = "panic" THEN [out |-> "panic", err |-> "", resp |-> ConnResponse0]
          ELSE IF r.out # "ok"
          THEN [out |-> "error", err |-> "failed to read response", resp |-> ConnResponse0]
          ELSE IF r.resp.ErrorCode # <<>> \/ r.resp.ErrorMessage # <<>>
          THEN [out |-> "error", err |-> "binding error", resp |-> ConnResponse0]
          ELSE [out |-> "ok", err |-> "", resp |-> r.resp]

\* The connection to the ingress is open; the write of the request succeeds
\* or not, and the relay's frame arrives whole or the connection ends after
\* its first bytes.
UpgradeInit ==
  /\ DialerRest
  /\ LstIdle
  /\ BkIdle
  /\ CsIdle
  /\ PvIdle
  /\ PaIdle
  /\ NdIdle
  /\ \E caller \in {"dial", "dialOnce"}, written \in BOOLEAN, body \in Responses :
       \E n \in 0..(Len(body) + 2) :
         wire = [pc |-> "upgrade", caller |-> caller, written |-> written,
                 frame |-> FrameOf(body), stream |-> SubSeq(FrameOf(body), 1, n),
                 res |-> [out |-> "", err |-> "", resp |-> ConnResponse0],
                 conn |-> "open", ret |-> [conn |-> FALSE, err |-> ""]]

\* dial / dialOnce call upgradeToBinding on the connection.
UpgradeCall ==
  /\ wire.pc = "upgrade"
  /\ LET r == upgradeToBinding(wire.written, wire.stream)
     IN wire' = [wire EXCEPT !.pc = IF r.out = "panic" THEN "panicked" ELSE "upgraded",
                            !.res = r]
  /\ UNCHANGED <<dialerVars, lst, bk, cs, pv, pa, nd>>

\* dial / dialOnce after upgradeToBinding: on an error the connection is
\* closed and nil returned with the error; dialOnce looks at the response's
\* error code and message once more; else the connection is returned.
UpgradeReturn ==
  /\ wire.pc = "upgraded"
  /\ wire' =
       IF wire.res.err # ""
       THEN [wire EXCEPT !.pc = "returned", !.conn = "closed",
                         !.ret = [conn |-> FALSE,
                                  err |-> IF wire.caller = "dial" THEN "upgrade"
                                          ELSE "UpgradeError"]]
       ELSE IF wire.caller = "dialOnce"
               /\ (wire.res.resp.ErrorCode # <<>> \/ wire.res.resp.ErrorMessage # <<>>)
       THEN [wire EXCEPT !.pc = "returned", !.conn = "closed",
                         !.ret = [conn |-> FALSE, err |-> "UpgradeError"]]
       ELSE [wire EXCEPT !.pc = "returned", !.ret = [conn |-> TRUE, err |-> ""]]
  /\ UNCHANGED <<dialerVars, lst, bk, cs, pv, pa, nd>>

UpgradeNext == UpgradeCall \/ UpgradeReturn

UpgradeSpec == UpgradeInit /\ [][UpgradeNext]_vars

\* ------------------------------------------------------------------ claims

\* The pc at which DialContext makes the lookup that routes the call.
RoutePc == IF version = "dialer.go" THEN "lookup2" ELSE "lookup1"

\* Caller c takes the routing step of DialContext.
Routes(c) == dl[c].pc = RoutePc /\ dl'[c].pc # RoutePc

\* C1: a DialContext call that starts after a Close call has returned ends
\* with ErrClosed, and it makes no directory API call, no fallback call and
\* no connection attempt to the ingress.
C1_ClosedDialerRejects ==
  \A c \in Callers :
    (dl[c].op = "DialContext" /\ dl[c].afterClose) =>
      /\ dl[c].pc \in {"entry", "done"}
      /\ dl[c].pc = "done" => dl[c].ret = ErrClosed("DialContext")
      /\ dl[c].nApi = 0
      /\ dl[c].fb = <<>>
      /\ dl[c].nAttempts = 0
      /\ dl[c].conn = "none"

C1_Witness ==
  \E c \in Callers :
    /\ dl[c].op = "DialContext"
    /\ dl[c].afterClose
    /\ dl[c].pc = "done"
    /\ ErrorsIs(dl[c].ret, "ErrClosed")

\* C2: when the routing lookup of DialContext misses and a fallback dialer is
\* configured, the call ends in that step with the fallback called exactly
\* once, on the caller's own network and address, its result returned as it
\* is, and no connection attempt to the ingress; no call ever has more than
\* one fallback call.
C2_FallbackDispatch ==
  [][\A c \in Callers :
       /\ (Routes(c) /\ ~isKnownEndpoint(dl[c].hostname) /\ cfg.fallback) =>
            /\ dl'[c].pc = "done"
            /\ Len(dl'[c].fb) = 1
            /\ dl'[c].fb[1].args = [network |-> dl[c].network, address |-> dl[c].address]
            /\ dl'[c].ret = dl'[c].fb[1].ret
            /\ dl'[c].nAttempts = 0
            /\ dl'[c].conn = "none"
       /\ Len(dl'[c].fb) <= 1
       /\ dl'[c].fb # <<>> => dl'[c].pc = "done" /\ dl'[c].nAttempts = 0]_vars

C2_Witness ==
  \E c \in Callers :
    /\ version = "dialer.go"
    /\ dl[c].pc = "done"
    /\ dl[c].nApi = 1
    /\ Len(dl[c].fb) = 1
    /\ dl[c].fb[1].args = [network |-> "tcp4", address |-> <<"u", ":", "4", "4", "3">>]
    /\ dl[c].ret = Err("conn", "fallback")

\* C3: when the routing lookup of DialContext misses and no fallback dialer
\* is configured, the call ends in that step with an EndpointNotFoundError
\* that carries the hostname and matches ErrEndpointNotFound, and with no
\* connection attempt to the ingress.
C3_NotFound ==
  [][\A c \in Callers :
       (Routes(c) /\ ~isKnownEndpoint(dl[c].hostname) /\ ~cfg.fallback) =>
         /\ dl'[c].pc = "done"
         /\ dl'[c].ret.kind = "EndpointNotFoundError"
         /\ dl'[c].ret.info = parseAddress(dl[c].address).hostname
         /\ ErrorsIs(dl'[c].ret, "ErrEndpointNotFound")
         /\ dl'[c].nAttempts = 0
         /\ dl'[c].conn = "none"
         /\ dl'[c].fb = <<>>]_vars

C3_Witness ==
  \E c \in Callers :
    /\ ~cfg.fallback
    /\ dl[c].pc = "done"
    /\ ErrorsIs(dl[c].ret, "ErrEndpointNotFound")
    /\ dl[c].ret.info = <<"u">>
    /\ dl[c].nAttempts = 0

\* Caller c's DialContext has reached dialWithRetry.
InRetryLoop(c) ==
  /\ version = "part_010"
  /\ dl[c].op = "DialContext"
  /\ \/ dl[c].pc \in {"connect", "upgrade", "backoff", "parked", "woken"}
     \/ dl[c].pc = "done" /\ dl[c].ret.from \in {"dialOnce", "ingress", "ctx", "dialWithRetry"}

\* C4: with MaxRetries = N >= 0, a DialContext call makes at most N + 1
\* connection attempts; when it ends with the error of a failed attempt, and
\* so whenever every attempt failed with the context live and the close
\* signal not raised, it has made exactly N + 1; with N = 0 it makes exactly
\* one attempt and enters no backoff wait.
C4_AttemptBound ==
  \A c \in Callers :
    /\ dl[c].nAttempts <= cfg.MaxRetries + 1
    /\ InRetryLoop(c) =>
         /\ (dl[c].pc = "done" /\ dl[c].ret.kind \in {"DialError", "UpgradeError"})
               => dl[c].nAttempts = cfg.MaxRetries + 1
         /\ (dl[c].pc = "done" /\ dl[c].ret.kind # "conn" /\ ~dl[c].ctxDone /\ ~closeCh)
               => /\ dl[c].ret.kind \in {"DialError", "UpgradeError"}
                  /\ dl[c].ret = dl[c].lastErr
                  /\ dl[c].nAttempts = cfg.MaxRetries + 1
         /\ cfg.MaxRetries = 0 =>
               /\ dl[c].nWaits = 0
               /\ dl[c].pc = "done" => dl[c].nAttempts = 1

C4_Witness ==
  \E c \in Callers :
    /\ InRetryLoop(c)
    /\ cfg.MaxRetries = 2
    /\ dl[c].pc = "done"
    /\ dl[c].ret.kind = "UpgradeError"
    /\ ~dl[c].ctxDone
    /\ ~closeCh
    /\ dl[c].nAttempts = 3
    /\ dl[c].nWaits = 2

\* C5: a call whose context is canceled while it is parked in the backoff
\* select leaves the select through the context case and returns ctx.Err(),
\* not a DialError, an UpgradeError or ErrClosed; the timer is not waited
\* for and no further connection attempt starts.
C5_CancelDuringBackoff ==
  \A c \in Callers :
    dl[c].cancelInWait =>
      /\ \/ dl[c].pc = "woken" /\ dl[c].sel = "ctx"
         \/ dl[c].pc = "done" /\ dl[c].ret = CtxErr
      /\ dl[c].nAttempts = dl[c].attempt
      /\ dl[c].conn # "open"

C5_Witness ==
  \E c \in Callers :
    /\ dl[c].cancelInWait
    /\ dl[c].pc = "done"
    /\ dl[c].ret = CtxErr
    /\ dl[c].lastErr.kind \in {"DialError", "UpgradeError"}
    /\ dl[c].nAttempts = 1
    /\ cfg.MaxRetries = 2
    /\ closeCh

\* C6: a call that is parked in the backoff select when the close signal is
\* raised leaves the select through the close case and returns ErrClosed; no
\* further connection attempt starts.
C6_CloseDuringBackoff ==
  \A c \in Callers :
    dl[c].closeInWait =>
      /\ \/ dl[c].pc = "woken" /\ dl[c].sel = "close"
         \/ dl[c].pc = "done" /\ dl[c].ret = ErrClosed("dialWithRetry")
      /\ dl[c].nAttempts = dl[c].attempt
      /\ dl[c].conn # "open"

C6_Witness ==
  \E c \in Callers :
    /\ dl[c].closeInWait
    /\ dl[c].pc = "done"
    /\ ErrorsIs(dl[c].ret, "ErrClosed")
    /\ dl[c].nAttempts = 2
    /\ cfg.MaxRetries = 2

\* The refresh goroutine is not running: it has exited or was never started.
RefreshGone == rl.pc \in {"exited", "off"} /\ disc["bg"].pc = "none" /\ mu # "bg"

\* C7: once a Close call has returned the refresh goroutine has exited, and
\* from then on it starts no poll and writes nothing to the cache.
C7_NoRefreshAfterClose ==
  [][/\ CloseReturned' => RefreshGone'
     /\ CloseReturned => rl' = rl /\ disc'["bg"] = disc["bg"] /\ mu' # "bg"]_vars

C7_Witness ==
  /\ CloseReturned
  /\ rl.pc = "exited"
  /\ rl.ticks = 2
  /\ hist.last = {<<"b">>}

\* C8: every Close call returns, and returns nil; the close signal is raised
\* by one call only, so that none panics closing a closed channel; once a
\* call has returned the signal is raised.
C8_CloseIdempotent ==
  /\ [](/\ ~panicked
        /\ \A k \in Closers : cl[k].ret \in {"", "nil"} /\ cl[k].pc # "panic"
        /\ Cardinality({k \in Closers : cl[k].pc \in {"store", "chan"}}) <= 1
        /\ CloseReturned => closeCh /\ closed /\ closeOnce = "done")
  /\ \A k \in Closers : (cl[k].pc = "once") ~> (cl[k].pc = "idle" /\ cl[k].ret = "nil")

C8_Witness ==
  /\ \A k \in Closers : cl[k].ret = "nil" /\ cl[k].pc = "idle"
  /\ closeCh
  /\ rl.pc = "exited"

\* C9: whenever a lookup can read the cache, the hostnames it knows are
\* exactly those of the list the latest cache update returned; a hostname of
\* the update before that is known only if the latest list has it too.
C9_CacheReplaced ==
  CanRLock =>
    /\ DOMAIN Endpoints = hist.last
    /\ \A h \in hist.last \cup hist.dropped \cup {<<"a">>, <<"b">>, <<"u">>} :
         isKnownEndpoint(h) <=> h \in hist.last
    /\ \A h \in hist.dropped : ~isKnownEndpoint(h)

C9_Witness ==
  /\ CanRLock
  /\ hist.dropped = {<<"a">>}
  /\ hist.last = {<<"b">>}
  /\ ~isKnownEndpoint(<<"a">>)
  /\ isKnownEndpoint(<<"b">>)

\* Process p's DiscoverEndpoints call returns an error in this step.
DiscFails(p) == disc[p].pc \in {"check", "fetch"} /\ disc'[p].pc = "none"

\* Process p's DiscoverEndpoints call, which will succeed, takes a step.
DiscSucceeds(p) ==
  \/ disc[p].pc = "fetch" /\ disc'[p].pc = "store"
  \/ disc[p].pc = "store" /\ disc'[p].pc = "none"

\* C10: the step in which a DiscoverEndpoints call fails leaves the cache as
\* it is, the cache changes only in the steps of a call that succeeds, and no
\* DialContext call returns an error that a DiscoverEndpoints call produced.
C10_FailedPollKeepsCache ==
  [][/\ \A p \in Procs : DiscFails(p) => endpoints' = endpoints /\ mu' = mu
     /\ endpoints' # endpoints => \E p \in Procs : DiscSucceeds(p)
     /\ \A c \in Callers :
          dl'[c].op = "DialContext" =>
            dl'[c].ret.from \notin {"DiscoverEndpoints", "discoverEndpoints"}]_vars

C10_Witness ==
  /\ "bg" \in hist.failed
  /\ Callers \cap hist.failed # {}
  /\ DOMAIN endpoints = {<<"a">>, <<"b">>}
  /\ \E c \in Callers : dl[c].op = "DialContext" /\ dl[c].pc = "done"
                         /\ dl[c].ret.kind = "conn"

\* The maps a completed DiscoverEndpoints can leave in the cache, and the
\* map NewDialer makes.
Snapshots ==
  {EmptyMap} \cup
  {StoreAll(EmptyMap, discoverEndpoints("op_1", sc).eps) :
     sc \in {x \in ApiScenarios : discoverEndpoints("op_1", x).err = ""}}

\* C11: a lookup (isKnownEndpoint, Endpoints) that gets the read lock while
\* DiscoverEndpoints calls run reads a complete map, the one before or the one
\* after an update: no writer is between make and Unlock, the map is the
\* whole result of one discovery, and it is the latest list committed, never
\* the emptied or half-filled map of an update under way.
C11_NoTornRead ==
  CanRLock =>
    /\ \A p \in Procs : disc[p].pc # "store"
    /\ endpoints \in Snapshots
    /\ Endpoints \in Snapshots
    /\ (endpoints = EmptyMap) <=> (hist.last = {})

C11_Witness ==
  \E c \in Callers :
    /\ dl[c].op = "DialContext"
    /\ dl[c].pc \in {"lookup1", "lookup2"}
    /\ disc["bg"].pc = "store"
    /\ mu = "bg"
    /\ ~CanRLock
    /\ hist.last = {<<"a">>, <<"b">>}
    /\ endpoints = EmptyMap

\* The places of listing raw that hold URL u.
PlacesOf(raw, u) == {i \in 1..Len(raw) : raw[i].URL = u}

\* The URLs that several entries of listing raw have.
RepeatedURLs(raw) == {raw[i].URL : i \in {j \in 1..Len(raw) : Cardinality(PlacesOf(raw, raw[j].URL)) > 1}}

\* The smallest element of a nonempty set of numbers.
MinOf(S) == CHOOSE i \in S : \A j \in S : i <= j

\* Exactly one discovered endpoint has URL u, made from the first entry of
\* the listing with that URL.
FirstWins(raw, eps, u) ==
  /\ Cardinality(PlacesOf(eps, u)) = 1
  /\ \A i \in PlacesOf(eps, u) :
       LET first == raw[MinOf(PlacesOf(raw, u))]
       IN /\ eps[i].ID = first.ID
          /\ eps[i].Proto = first.Proto
          /\ eps[i].Hostname = extractHostPort(u).hostname

\* The hostnames under which cache holds an endpoint with URL u.
CachedFor(cache, u) == {h \in DOMAIN cache : cache[h].URL = u}

\* C12 as stated: a URL that several entries of the listing have gets
\* exactly one discovered endpoint, made from the first of them, and the
\* cache holds exactly one endpoint with that URL.
C12_AsStated ==
  lst.pc = "cached" =>
    \A u \in RepeatedURLs(lst.raw) :
      /\ FirstWins(lst.raw, lst.eps, u)
      /\ Cardinality(CachedFor(lst.cache, u)) = 1

\* C12: a URL that several entries of the listing have gets exactly one
\* discovered endpoint, made from the first of them; the cache holds at most
\* one endpoint with that URL: exactly that one, unless a later discovered
\* endpoint with another URL has the same hostname and has taken its place.
C12_DedupFirstWins ==
  lst.pc = "cached" =>
    \A u \in RepeatedURLs(lst.raw) :
      /\ FirstWins(lst.raw, lst.eps, u)
      /\ \A i \in PlacesOf(lst.eps, u) :
           LET h == lst.eps[i].Hostname
               later == {j \in (i + 1)..Len(lst.eps) : lst.eps[j].Hostname = h}
           IN /\ CachedFor(lst.cache, u) \subseteq {h}
              /\ later = {} => lst.cache[h] = lst.eps[i]
              /\ later # {} => /\ CachedFor(lst.cache, u) = {}
                               /\ \E j \in later : lst.cache[h] = lst.eps[j]

C12_Witness ==
  /\ lst.pc = "cached"
  /\ lst.raw = <<EpA, EpB, EpADup>>
  /\ Len(lst.eps) = 2
  /\ lst.cache[<<"a">>].ID = "ep_a"

\* The last place of eps that holds an endpoint with hostname h.
LastPlace(eps, h) ==
  CHOOSE i \in 1..Len(eps) :
    /\ eps[i].Hostname = h
    /\ \A j \in (i + 1)..Len(eps) : eps[j].Hostname # h

\* C13: after a successful DiscoverEndpoints the keys of the cache are the
\* hostnames of the list it returned, each key holds an endpoint with that
\* hostname, and a hostname that several discovered endpoints share holds
\* the last of them in listing order.
C13_LastHostnameWins ==
  lst.pc = "cached" =>
    /\ DOMAIN lst.cache = HostnamesOf(lst.eps)
    /\ \A h \in DOMAIN lst.cache :
         /\ lst.cache[h].Hostname = h
         /\ lst.cache[h] = lst.eps[LastPlace(lst.eps, h)]

C13_Witness ==
  /\ lst.pc = "cached"
  /\ lst.round = 2
  /\ lst.raw = <<EpB, EpA, EpB2>>
  /\ DOMAIN lst.cache = {<<"a">>, <<"b">>}
  /\ lst.cache[<<"b">>].ID = "ep_b2"
  /\ lst.cache[<<"b">>].Port = 7

\* The stage of the ingress dial that produced error e: the TCP connect or
\* TLS handshake, or the binding upgrade.
FailedStage(e) ==
  IF e.from \notin {"dial", "dialOnce"} THEN "none"
  ELSE IF e.kind \in {"dial", "TLS handshake", "DialError"} THEN "connect"
  ELSE IF e.kind \in {"upgrade", "UpgradeError"} THEN "upgrade"
  ELSE "none"

\* C14: a DialContext call to a known hostname that ends with the error of a
\* failed ingress stage returns an error that errors.Is matches with
\* ErrDialFailed when the stage was the TCP connect or the TLS handshake and
\* with ErrUpgradeFailed when it was the binding upgrade.
C14_ErrorClasses ==
  \A c \in Callers :
    (dl[c].op = "DialContext" /\ dl[c].pc = "done") =>
      /\ FailedStage(dl[c].ret) = "connect" => ErrorsIs(dl[c].ret, "ErrDialFailed")
      /\ FailedStage(dl[c].ret) = "upgrade" => ErrorsIs(dl[c].ret, "ErrUpgradeFailed")

\* C15: a dial attempt that is in the binding upgrade when its context is
\* canceled does not stay there: the call leaves the upgrade (to return the
\* cancellation error with the connection closed) even when the relay sends
\* no answer.  The relay's answer is the DialUpgrade step, which nothing
\* promises.
C15_CancelDuringUpgrade ==
  \A c \in Callers :
    (dl[c].pc = "upgrade" /\ dl[c].ctxDone /\ dl[c].conn = "open")
      ~> (dl[c].pc # "upgrade")

\* C18: decoding the body of a response frame ends with a decoded response
\* or with a decode error, whatever the bytes of the body are: no slice
\* expression of the decoder is out of range.
C18_DecoderInBounds ==
  wire.pc = "read" => wire.out \in {"ok", "error"}

\* C17: a request whose body would be longer than 65535 bytes is not
\* written: the write returns an error and no byte goes out; and the length
\* prefix of every frame written is the number of body bytes after it.
C17_FrameLength ==
  wire.pc = "written" =>
    /\ Len(marshal(Host(wire.hostLen), wire.port)) > 65535 =>
         wire.err # "" /\ wire.frame = <<>>
    /\ wire.frame # <<>> =>
         wire.frame[1] + 256 * wire.frame[2] = Len(wire.frame) - 2

\* C16: the peer decodes the frame of a request with a host and a positive
\* port to that host and that port; a request without a host or with port 0
\* has no such field in its frame and decodes, without an error, to the
\* empty host or to port 0.
C16_RoundTrip ==
  wire.pc = "decoded" =>
    /\ wire.out = "ok"
    /\ wire.dec.Host = Host(wire.hostLen)
    /\ wire.dec.Port = wire.port
    /\ (wire.hostLen = 0 /\ wire.port = 0) => wire.frame = <<0, 0>>

\* C19 as stated: the second wait between attempts is within 75 ms and
\* 125 ms and the third within 150 ms and 250 ms.
C19_AsStated ==
  bk.pc = "wait" =>
    /\ bk.attempt = 2 => Ms(75) <= bk.wait /\ bk.wait <= Ms(125)
    /\ bk.attempt = 3 => Ms(150) <= bk.wait /\ bk.wait <= Ms(250)

\* C19: with MaxRetries 3, InitialBackoff 100 ms, MaxBackoff 5 s and
\* multiplier 2, the first wait between attempts (the one before the second
\* attempt) is within 75 ms and 125 ms and the second (before the third
\* attempt) within 150 ms and 250 ms, whatever the jitter.
C19_BackoffBands ==
  bk.pc = "wait" =>
    /\ bk.attempt = 1 => Ms(75) <= bk.wait /\ bk.wait <= Ms(125)
    /\ bk.attempt = 2 => Ms(150) <= bk.wait /\ bk.wait <= Ms(250)

C19_Witness ==
  /\ bk.pc = "wait"
  /\ bk.attempt = 2
  /\ bk.wait = Ms(150)

\* The identity that a call of p which started on a settled store finds:
\* the one of the most recent Save, or before any Save the one a
\* constructor has loaded.
Expected(p) ==
  LET r == cs.proc[p].ret
  IN IF r.exp = <<>> /\ cs.ctor = "NewMemoryStoreWithCert" THEN <<cs.pre>> ELSE r.exp

\* Call r answers as a register that holds the identities of held.
Answers(r, held) ==
  /\ r.op = "Exists" => r.exists = (held # <<>>)
  /\ r.op = "Load" =>
       IF held = <<>> THEN r.err
       ELSE /\ ~r.err
            /\ r.key = held[1].key
            /\ r.cert = held[1].cert
            /\ r.operatorID = held[1].operatorID

AnsweredQuietly(p) == cs.kind # "off" /\ cs.proc[p].pc = "idle" /\ cs.proc[p].ret.quiet

\* C20 as stated: every store answers as a register that is empty before
\* the first Save and holds the identity of the most recent Save after it.
C20_AsStated ==
  \A p \in StoreProcs : AnsweredQuietly(p) => Answers(cs.proc[p].ret, cs.proc[p].ret.exp)

\* C20: a MemoryStore of NewMemoryStore and a FileStore over a directory
\* without an identity are single-slot registers: before any Save, Exists is
\* false and Load fails; after a sequence of Saves, Exists is true and Load
\* returns the key, certificate and operator ID of the most recent Save, also
\* when the Save before it saved the same identity.  A MemoryStore of
\* NewMemoryStoreWithCert answers as after a Save of the constructor's
\* arguments.
C20_SingleSlotRegister ==
  \A p \in StoreProcs : AnsweredQuietly(p) => Answers(cs.proc[p].ret, Expected(p))

C20_Witness ==
  \E p \in StoreProcs :
    /\ AnsweredQuietly(p)
    /\ cs.kind = "file"
    /\ cs.proc[p].ret.op = "Load"
    /\ cs.proc[p].ret.twice
    /\ cs.proc[p].ret.exp = <<IdB>>
    /\ cs.files.operator = [exists |-> TRUE, data |-> ""]
    /\ ~cs.proc[p].ret.err

\* The identity that Load has returned to p.
Loaded(p) ==
  [key |-> cs.proc[p].ret.key, cert |-> cs.proc[p].ret.cert,
   operatorID |-> cs.proc[p].ret.operatorID]

LoadSucceeded(p) ==
  /\ cs.kind # "off"
  /\ cs.proc[p].pc = "idle"
  /\ cs.proc[p].ret.op = "Load"
  /\ ~cs.proc[p].ret.err

\* C21: whatever the interleaving of Save and Load calls on a MemoryStore,
\* a Load that succeeds returns a key, certificate and operator ID that one
\* Save call or the constructor was given together.
C21_MemoryLoadWhole ==
  \A p \in StoreProcs :
    cs.kind = "memory" /\ LoadSucceeded(p) => Loaded(p) \in cs.given

C21_Witness ==
  \E p, q \in StoreProcs :
    /\ cs.kind = "memory"
    /\ LoadSucceeded(p)
    /\ Loaded(p) = IdB
    /\ cs.proc[q].pc = "ms_cert"
    /\ cs.mem.key = "k1"
    /\ cs.mem.cert = "c2"

\* C22: a Load of a FileStore that succeeds returns a key, certificate and
\* operator ID that one Save call was given together, also after a Save
\* that failed and while a Save runs; after a Save that failed, it is the
\* identity saved before.
C22_FileSaveAtomic ==
  \A p \in StoreProcs :
    cs.kind = "file" /\ LoadSucceeded(p) => Loaded(p) \in cs.given

BoundToKubernetes(id) ==
  \E i \in 1..Len(KnownIDs) : KnownIDs[i] = id /\ lst.kinds[i] = "k8s"

\* C24: when the primary listing succeeds, ListBoundEndpoints returns no
\* error and, in the order of the listing, the entries whose ID the
\* /endpoints listing gives with a "kubernetes" binding if that call
\* succeeds, and the whole listing if it fails.
C24_FilterByBinding ==
  lst.pc = "returned" /\ lst.sc.primaryOk =>
    /\ lst.out.err = ""
    /\ lst.out.eps =
         IF lst.sc.secondaryOk
           THEN SelectSeq(lst.sc.primary, LAMBDA e : BoundToKubernetes(e.ID))
           ELSE lst.sc.primary

C24_Witness ==
  /\ lst.pc = "returned"
  /\ lst.sc.primaryOk /\ lst.sc.secondaryOk
  /\ lst.sc.primary = <<EpB, EpA, EpB>>
  /\ lst.kinds[3] = "k8s" /\ lst.kinds[1] = "pub"
  /\ lst.out.eps = <<EpB, EpB>>

C26_NilDefaultDialerFails ==
  nd.pc = "dialed" /\ nd.Config.DefaultDialer = "nil" =>
    nd.dial.err # "" /\ nd.dial.via = ""

\* C27: a dial attempt that fails has closed the connection it opened
\* before it reports the failure; a DialContext that returns an error
\* leaves no connection of its own open, and one that returns a connection
\* of the ingress leaves that one open and no other.
C27_ConnectionsClosed ==
  \A c \in Callers :
    /\ dl[c].pc \in {"backoff", "parked", "woken", "connect", "tcp"} =>
         dl[c].conn # "open" /\ dl[c].leaked = 0
    /\ dl[c].pc = "done" /\ dl[c].op = "DialContext" =>
         /\ dl[c].leaked = 0
         /\ dl[c].ret.kind # "conn" => dl[c].conn # "open"
         /\ dl[c].ret = Err("conn", "ingress") => dl[c].conn = "open"

C27_Witness ==
  \E c \in Callers :
    /\ dl[c].pc = "done"
    /\ dl[c].ret = Err("conn", "ingress")
    /\ dl[c].nAttempts = 3
    /\ dl[c].lastErr.kind = "UpgradeError"
    /\ dl[c].conn = "open"

\* C28: when an attempt of dialWithRetry fails and the context is done, the
\* call returns the context's error in that step, with no backoff wait,
\* whatever the number of retries left; and a call that has returned makes
\* no further attempt.
C28_NoRetryAfterCancel ==
  [][\A c \in Callers :
       /\ ( /\ version = "part_010"
            /\ dl[c].pc \in {"connect", "upgrade"}
            /\ dl[c].ctxDone
            /\ dl'[c] # dl[c]
            /\ dl'[c].ret.kind # "conn" ) =>
           /\ dl'[c].pc = "done"
           /\ dl'[c].ret = CtxErr
           /\ dl'[c].nWaits = dl[c].nWaits
       /\ dl[c].pc = "done" => dl'[c] = dl[c]]_vars

C28_Witness ==
  \E c \in Callers :
    /\ dl[c].pc = "done"
    /\ dl[c].ret = CtxErr
    /\ dl[c].lastErr.kind = "UpgradeError"
    /\ dl[c].nAttempts = 1
    /\ dl[c].nWaits = 0
    /\ cfg.MaxRetries = 2

\* C29: the first attempt of a call starts with no wait behind it; every
\* later attempt starts after as many backoff waits as attempts before it,
\* the last of them ended by its timer and begun after the attempt before
\* failed; and no attempt starts in a call that has returned.
C29_AttemptsAndWaits ==
  [][\A c \in Callers :
       dl'[c].nAttempts = dl[c].nAttempts + 1 =>
         /\ dl[c].nWaits = dl[c].nAttempts
         /\ dl[c].nAttempts = 0 => dl[c].lastErr = NoErr
         /\ dl[c].nAttempts > 0 => dl[c].sel = "timer" /\ dl[c].lastErr # NoErr
         /\ dl[c].pc # "done"]_vars

C29_Witness ==
  \E c \in Callers :
    /\ dl[c].pc = "upgrade"
    /\ dl[c].nAttempts = 3
    /\ dl[c].nWaits = 2
    /\ dl[c].sel = "timer"

\* C30: when dialWithRetry returns because an attempt failed while the
\* context is live, that attempt was number MaxRetries + 1 and the call
\* returns its error: a DialError if it failed to connect, an UpgradeError
\* if it failed in the upgrade, whatever the attempts before returned.
C30_LastAttemptError ==
  [][\A c \in Callers :
       ( /\ version = "part_010"
         /\ dl[c].pc \in {"connect", "upgrade"}
         /\ dl'[c].pc = "done"
         /\ ~dl[c].ctxDone
         /\ dl'[c].ret.kind # "conn" ) =>
        /\ dl'[c].nAttempts = cfg.MaxRetries + 1
        /\ dl'[c].ret = Err(IF dl[c].pc = "connect" THEN "DialError" ELSE "UpgradeError",
                            "dialOnce")]_vars

C30_Witness ==
  \E c \in Callers :
    /\ dl[c].pc = "done"
    /\ ~dl[c].ctxDone
    /\ ~closeCh
    /\ dl[c].ret = Err("DialError", "dialOnce")
    /\ dl[c].nAttempts = 3
    /\ cfg.MaxRetries = 2
    /\ dl[c].conn = "closed"

\* The response the relay's frame holds when it is read whole and decoded.
Decoded == readProtoMessage(wire.frame)

\* C31: upgradeToBinding reports success only if a response frame was read
\* whole and decoded and its error code and error message are both empty; a
\* decoded response in which either is not empty makes the attempt fail,
\* and the connection is closed and not returned to the caller.
C31_UpgradeSuccess ==
  wire.pc \in {"upgraded", "returned"} /\ "caller" \in DOMAIN wire =>
    /\ (wire.res.out = "ok" \/ wire.ret.conn) =>
         /\ wire.written
         /\ wire.stream = wire.frame
         /\ Decoded.out = "ok"
         /\ Decoded.resp.ErrorCode = <<>>
         /\ Decoded.resp.ErrorMessage = <<>>
    /\ ( /\ wire.written
         /\ wire.stream = wire.frame
         /\ Decoded.out = "ok"
         /\ (Decoded.resp.ErrorCode # <<>> \/ Decoded.resp.ErrorMessage # <<>>) ) =>
         /\ wire.res.out = "error"
         /\ wire.pc = "returned" => ~wire.ret.conn /\ wire.ret.err # "" /\ wire.conn = "closed"

\* A response with an error message and no error code was decoded, and the
\* caller got an error and no connection.
C31_Witness ==
  /\ wire.pc = "returned"
  /\ "caller" \in DOMAIN wire
  /\ wire.written
  /\ wire.stream = wire.frame
  /\ Decoded.out = "ok"
  /\ Decoded.resp.ErrorCode = <<>>
  /\ Decoded.resp.ErrorMessage # <<>>
  /\ ~wire.ret.conn
  /\ wire.conn = "closed"

\* C40: whenever parseAddress returns without error, the port it returns is
\* in 1..65535.
C40_PortInRange ==
  pa.pc = "returned" /\ pa.out.err = "" => pa.out.port \in 1..65535

HoldsProvisioned(st) ==
  st = [stored |-> TRUE, key |-> "k_new", cert |-> pv.resp.cert, operatorID |-> pv.resp.ID]

\* C34: when EnsureCertificate returns an identity it has provisioned, Save
\* of its key, certificate and operator ID has completed successfully
\* before; and when Save fails, EnsureCertificate returns an error and no
\* identity.
C34_SavedBeforeReturn ==
  [][ /\ (pv.pc # "done" /\ pv'.pc = "done" /\ pv'.ret.err = "" /\ pv'.created > 0) =>
           /\ pv.saved = 1
           /\ HoldsProvisioned(pv.store)
           /\ pv'.ret.cert = <<pv.store.cert, pv.store.key>>
           /\ pv'.ret.operatorID = pv.store.operatorID
      /\ (pv.pc = "save" /\ pv'.saved = 1 /\ ~HoldsProvisioned(pv'.store)) =>
           /\ pv'.pc = "done"
           /\ pv'.ret.err # ""
           /\ pv'.ret.cert = <<>>
    ]_vars

\* A provisioned identity was returned, and the store holds it in place of
\* what it held before.
C34_Witness ==
  /\ pv.pc = "done"
  /\ pv.ret.err = ""
  /\ pv.created = 1
  /\ pv.saved = 1
  /\ pv.before.stored
  /\ HoldsProvisioned(pv.store)

\* C38: if EnsureCertificate returns an error, the identity store holds
\* exactly what it held before the call.
C38_StoreUnchangedOnError ==
  pv.pc = "done" /\ pv.ret.err # "" => pv.store = pv.before

\* C39: when EnsureCertificate succeeds, the operator ID it returns, which
\* NewDialer gives the dialer, is not empty.
C39_OperatorIDSet ==
  pv.pc = "done" /\ pv.ret.err = "" => pv.ret.operatorID # ""

\* The steps of caller c's DialContext of dialer.go around its lookups: the
\* first lookup goes on to the second one without discovery when the
\* hostname is cached, and starts one DiscoverEndpoints call when it is not;
\* that call ends in the second lookup with no error returned, whatever its
\* result; from the second lookup on no discovery is started.
LookupSteps(c) ==
  (version = "dialer.go" /\ dl[c].op = "DialContext") =>
    /\ (dl[c].pc = "lookup1" /\ dl'[c].pc # "lookup1") =>
         IF isKnownEndpoint(dl[c].hostname)
         THEN dl'[c].pc = "lookup2" /\ disc'[c] = disc[c] /\ dl'[c].nApi = 0
         ELSE dl'[c].pc = "discover" /\ disc[c].pc = "none" /\ disc'[c].pc = "check"
    /\ (dl[c].pc = "discover" /\ dl'[c].pc # "discover") =>
         dl'[c].pc = "lookup2" /\ dl'[c].ret = NoErr /\ disc'[c].pc = "none"
    /\ dl[c].pc = "lookup2" =>
         /\ dl'[c].pc \in {"lookup2", "done", "tcp"}
         /\ disc[c].pc = "none" /\ disc'[c].pc = "none"
         /\ dl[c].nApi <= 1 /\ dl'[c].nApi = dl[c].nApi
         /\ dl'[c].ret.from \notin {"DiscoverEndpoints", "discoverEndpoints"}

\* Caller c's DialContext takes the decision of its second lookup after its
\* discovery on the miss has failed.
DecidesAfterFailure(c) ==
  /\ version = "dialer.go"
  /\ dl[c].op = "DialContext"
  /\ dl[c].pc = "lookup2"
  /\ dl'[c].pc # "lookup2"
  /\ c \in hist.failed

\* The call ends in the fallback dialer or with EndpointNotFoundError.
FallbackOrNotFound(rec) ==
  /\ rec.pc = "done"
  /\ rec.nAttempts = 0
  /\ rec.fb # <<>> \/ rec.ret.kind = "EndpointNotFoundError"

\* C32 as stated: a failed discovery on the miss always leads to the
\* fallback dialer or the not-found error.
C32_AsStated ==
  [][\A c \in Callers :
       /\ LookupSteps(c)
       /\ DecidesAfterFailure(c) => FallbackOrNotFound(dl'[c])]_vars

\* C32: in DialContext a hostname missing from the cache triggers exactly
\* one synchronous DiscoverEndpoints call followed by a second lookup before
\* the fallback/not-found decision; a hostname in the cache triggers no
\* discovery; a failure of the discovery on the miss is not returned to the
\* caller, and leads to the fallback dialer or the not-found error unless
\* another discovery has cached the hostname before the second lookup.
C32_OnMissDiscovery ==
  [][\A c \in Callers :
       /\ LookupSteps(c)
       /\ (DecidesAfterFailure(c) /\ ~isKnownEndpoint(dl[c].hostname)) =>
            FallbackOrNotFound(dl'[c])]_vars

\* A DialContext whose discovery on the miss called the directory and
\* failed has ended with EndpointNotFoundError.
C32_Witness ==
  \E c \in Callers :
    /\ version = "dialer.go"
    /\ dl[c].op = "DialContext"
    /\ c \in hist.failed
    /\ dl[c].nApi = 1
    /\ dl[c].pc = "done"
    /\ dl[c].ret.kind = "EndpointNotFoundError"

\* C33: a failed background poll leaves the refresh loop in its select;
\* while the dialer is not closed the loop leaves the select only by a tick,
\* which starts another poll; the loop has exited only if Close has raised
\* the close signal; and once the dialer is closed the loop exits in the end.
C33_RefreshSurvives ==
  /\ [][/\ DiscFails("bg") => rl'.pc = "select"
        /\ (rl.pc = "select" /\ rl'.pc # "select" /\ ~closed) =>
             rl'.pc = "poll" /\ rl'.ticks = rl.ticks + 1 /\ disc'["bg"].pc = "check"
        /\ rl'.pc = "exited" => closed /\ closeCh]_vars
  /\ (cfg.refresh /\ closed) ~> (rl.pc = "exited")

\* The second poll of a dialer that is not closed runs after the first one
\* has failed.
C33_Witness ==
  /\ ~closed
  /\ "bg" \in hist.failed
  /\ hist.last = {}
  /\ rl.ticks = 2
  /\ rl.pc = "poll"
  /\ disc["bg"].pc = "fetch"

\* C36: once a Close call has returned, no DialContext call returns a
\* connection established through the ingress.
C36_NoConnAfterClose ==
  [][\A c \in Callers :
       (CloseReturned /\ dl[c].op = "DialContext" /\ dl[c].pc # "done"
          /\ dl'[c].pc = "done") =>
         ~(dl'[c].ret.kind = "conn" /\ dl'[c].ret.from = "ingress")]_vars

\* C37: once a Close call has returned, the endpoint cache, as lookups and
\* Endpoints() see it, does not change any more.
C37_CacheFrozenAfterClose ==
  [][CloseReturned => endpoints' = endpoints /\ Endpoints' = Endpoints]_vars

====
